---------------------------- MODULE Spec2Model ----------------------------
(***************************************************************************)
(* Model of the knowshowgo neurosymbolic inference engine                  *)
(* (src/src/knowshowgo/neuro/logic.py, engine.py, types.py).               *)
(*                                                                         *)
(* Truth values are Python floats in the source.  They are represented     *)
(* here in fixed point: the integer v stands for v / SCALE.  A product of  *)
(* two truth values and a quotient are rounded toward zero to a multiple   *)
(* of 1 / SCALE.  Python dictionaries are sequences of records in insertion   *)
(* order (the order the engine iterates them in); a key that a dictionary  *)
(* may lack is a field the record may lack, read with Get.                 *)
(***************************************************************************)
EXTENDS Integers, Sequences, FiniteSets, TLC

VARIABLES
    schema,     \* the NeuroJSON document the engine was constructed from
    engine,     \* the NeuroEngine object: config, _variables, _rules,
                \* _constraints, _states, _var_to_output_rules
    pc,         \* position of the call in progress: "idle" between calls
    frame,      \* local variables of the call in progress
    last,       \* the call that ended last and what it returned
    ncalls,     \* number of API calls made so far
    db,         \* the storage collaborator of the bridge service
    operands,   \* the two truth values the kernel is applied to
    tasks,      \* the solve_context calls in progress on one service
    calls       \* the calls the storage collaborator has received

vars == <<schema, engine, pc, frame, last, ncalls, db, operands, tasks, calls>>

-----------------------------------------------------------------------------
(* Numbers *)

SCALE == 1000

HALF == 500

Max(a, b) == IF a >= b THEN a ELSE b

Min(a, b) == IF a <= b THEN a ELSE b

Abs(a) == IF a >= 0 THEN a ELSE 0 - a

\* a / b rounded toward zero
Quot(a, b) == IF a >= 0 THEN a \div b ELSE 0 - ((0 - a) \div b)

\* a * b of two fixed-point numbers
Mul(a, b) == Quot(a * b, SCALE)

RECURSIVE SumSeq(_)
SumSeq(s) == IF s = <<>> THEN 0 ELSE Head(s) + SumSeq(Tail(s))

\* dict.get(key, default)
Get(d, key, default) == IF key \in DOMAIN d THEN d[key] ELSE default

-----------------------------------------------------------------------------
(* logic.py: the kernel *)

clamp(value) == Max(0, Min(SCALE, value))

fuzzy_not(a) == clamp(SCALE - a)

fuzzy_and(values) ==
    IF Len(values) = 0 THEN SCALE
    ELSE IF Len(values) = 1 THEN clamp(values[1])
    ELSE clamp(SumSeq(values) - (Len(values) - 1) * SCALE)

fuzzy_or(values) ==
    IF Len(values) = 0 THEN 0
    ELSE IF Len(values) = 1 THEN clamp(values[1])
    ELSE clamp(SumSeq(values))

\* implies without the complement of the antecedent
implies_Uncomplemented(antecedent, consequent) ==
    clamp(antecedent + consequent)

implies(antecedent, consequent) == clamp(SCALE - antecedent + consequent)

equivalent(a, b) == clamp(SCALE - Abs(a - b))

\* inhibit that adds the inhibition instead of taking it away
inhibit_Raising(target_value, attacker_value, weight) ==
    LET inhibition_factor == Mul(attacker_value, weight)
    IN  clamp(Mul(target_value, SCALE + inhibition_factor))

inhibit(target_value, attacker_value, weight) ==
    LET inhibition_factor == Mul(attacker_value, weight)
    IN  clamp(Mul(target_value, SCALE - inhibition_factor))

support(target_value, supporter_value, weight) ==
    LET support_factor == Mul(supporter_value, weight)
    IN  clamp(target_value + Mul(SCALE - target_value, support_factor))

\* str.upper() on the operator tags that occur in rule data
Upper(op) ==
    CASE op = "identity" -> "IDENTITY"
      [] op = "and" -> "AND"
      [] op = "or" -> "OR"
      [] op = "not" -> "NOT"
      [] op = "weighted" -> "WEIGHTED"
      [] OTHER -> op

\* apply_operation(op, inputs) as the engine calls it (weights = None).
\* The outcome is a value, or the ValueError raised for an unknown operator.
apply_operation(op, inputs) ==
    LET o == Upper(op)
    IN  CASE o = "IDENTITY" ->
               [raised |-> FALSE,
                value |-> IF Len(inputs) > 0 THEN clamp(inputs[1]) ELSE HALF]
          [] o = "AND" -> [raised |-> FALSE, value |-> fuzzy_and(inputs)]
          [] o = "OR" -> [raised |-> FALSE, value |-> fuzzy_or(inputs)]
          [] o = "NOT" ->
               [raised |-> FALSE,
                value |-> IF Len(inputs) > 0 THEN fuzzy_not(inputs[1]) ELSE HALF]
          [] o = "WEIGHTED" ->
               [raised |-> FALSE,
                value |-> IF Len(inputs) > 0
                          THEN Quot(SumSeq(inputs), Len(inputs)) ELSE HALF]
          [] OTHER -> [raised |-> TRUE, value |-> 0]

-----------------------------------------------------------------------------
(* engine.py: construction *)

\* types.py EngineConfig defaults
DEFAULT_CONVERGENCE_THRESHOLD == 1

DEFAULT_MAX_ITERATIONS == 100

DEFAULT_LEARNING_RATE == 100

DEFAULT_DAMPING_FACTOR == 500

\* d[rec.id] = rec on a dictionary kept as a sequence in insertion order:
\* a new key is appended, an existing key keeps its place and gets the value
DictPut(d, rec) ==
    IF \E i \in DOMAIN d : d[i].id = rec.id
    THEN [i \in DOMAIN d |-> IF d[i].id = rec.id THEN rec ELSE d[i]]
    ELSE Append(d, rec)

RECURSIVE DictFromList(_, _)
DictFromList(d, list) ==
    IF list = <<>> THEN d ELSE DictFromList(DictPut(d, Head(list)), Tail(list))

\* self._rules[rule_id]
RuleById(eng, rule_id) ==
    eng.rules[CHOOSE i \in DOMAIN eng.rules : eng.rules[i].id = rule_id]

\* the names declared by a variables dictionary
Names(variables) == {variables[i].name : i \in DOMAIN variables}

\* _load, rules part: the ids of the rules that output to name, in list order
RECURSIVE OutputIndex(_, _)
OutputIndex(rules, name) ==
    IF rules = <<>> THEN <<>>
    ELSE LET rule == Head(rules)
             rest == OutputIndex(Tail(rules), name)
         IN  IF "output" \in DOMAIN rule /\ rule.output = name
             THEN <<rule.id>> \o rest
             ELSE rest

\* VariableState(value = prior, locked = declared locked)
InitialState(var) ==
    [value |-> Get(var, "prior", HALF), locked |-> Get(var, "locked", FALSE)]

_load(doc, config) ==
    LET variables == Get(doc, "variables", <<>>)
        rules == Get(doc, "rules", <<>>)
        constraints == Get(doc, "constraints", <<>>)
    IN  [config |-> config,
         variables |-> variables,
         states |-> [n \in Names(variables) |->
                        InitialState(
                            variables[CHOOSE i \in DOMAIN variables :
                                          variables[i].name = n])],
         var_to_output_rules |->
             [n \in Names(variables) |-> OutputIndex(rules, n)],
         rules |-> DictFromList(<<>>, rules),
         constraints |-> DictFromList(<<>>, constraints)]

\* NeuroEngine(schema, config)
NeuroEngine(doc, config) == _load(doc, config)

-----------------------------------------------------------------------------
(* engine.py: inference *)

\* ResetState leaving state.value as it is
ResetState_KeepsValue(var, state) ==
    [value |-> state.value, locked |-> Get(var, "locked", FALSE)]

\* ResetState leaving state.locked as it is
ResetState_KeepsLocked(var, state) ==
    [value |-> Get(var, "prior", HALF), locked |-> state.locked]

\* state.value, state.locked := the declaration's prior and locked
ResetState(var, state) ==
    [value |-> Get(var, "prior", HALF), locked |-> Get(var, "locked", FALSE)]

_reset_to_priors(eng) ==
    [eng EXCEPT !.states =
        [n \in DOMAIN eng.states |->
            ResetState(
                eng.variables[CHOOSE i \in DOMAIN eng.variables :
                                  eng.variables[i].name = n],
                eng.states[n])]]

\* run, lines 143-147: evidence for a declared name is clamped and locked,
\* evidence for any other name is dropped
LockEvidence(eng, evidence) ==
    [eng EXCEPT !.states =
        [n \in DOMAIN eng.states |->
            IF n \in DOMAIN evidence
            THEN [value |-> clamp(evidence[n]), locked |-> TRUE]
            ELSE eng.states[n]]]

_get_all_values(eng) == [n \in DOMAIN eng.states |-> eng.states[n].value]

\* MaxIter as the larger of iterations and config.max_iterations
MaxIter_Larger(eng, iterations) ==
    IF iterations = {} THEN eng.config.max_iterations
    ELSE Max(CHOOSE k \in iterations : TRUE, eng.config.max_iterations)

\* iterations or self.config.max_iterations; iterations is {} for None
\* and {k} for the integer k
MaxIter(eng, iterations) ==
    IF iterations = {} \/ iterations = {0}
    THEN eng.config.max_iterations
    ELSE CHOOSE k \in iterations : TRUE

\* The outcome of _evaluate_rule: None, a value, or the exception raised
NoValue == [tag |-> "None", value |-> 0]

Raised == [tag |-> "raise", value |-> 0]

Value(v) == [tag |-> "value", value |-> v]

\* the value of a rule of a known type on resolved inputs
RuleResult(rule, input_values) ==
    LET rule_type == Get(rule, "type", "IMPLICATION")
        op == Get(rule, "op", "IDENTITY")
        weight == Get(rule, "weight", SCALE)
    IN  CASE rule_type = "IMPLICATION" ->
               LET antecedent == apply_operation(op, input_values)
               IN  IF antecedent.raised THEN Raised
                   ELSE Value(clamp(Mul(antecedent.value, weight)))
          [] rule_type = "CONJUNCTION" ->
               Value(clamp(Mul(fuzzy_and(input_values), weight)))
          [] rule_type = "DISJUNCTION" ->
               Value(clamp(Mul(fuzzy_or(input_values), weight)))
          [] rule_type = "EQUIVALENCE" ->
               IF Len(input_values) >= 2
               THEN Value(clamp(Mul(equivalent(input_values[1],
                                               input_values[2]), weight)))
               ELSE Value(clamp(Mul(IF Len(input_values) > 0
                                    THEN input_values[1] ELSE HALF, weight)))
          [] OTHER -> NoValue

\* _evaluate_rule reading the default VariableState (value 0.5) for an
\* undeclared input
_evaluate_rule_DefaultState(eng, rule) ==
    LET inputs == Get(rule, "inputs", <<>>)
    IN  RuleResult(rule,
                   [i \in DOMAIN inputs |->
                       IF inputs[i] \in DOMAIN eng.states
                       THEN eng.states[inputs[i]].value ELSE HALF])

_evaluate_rule(eng, rule) ==
    LET inputs == Get(rule, "inputs", <<>>)
    IN  IF \E i \in DOMAIN inputs : inputs[i] \notin DOMAIN eng.states
        THEN NoValue
        ELSE RuleResult(rule,
                        [i \in DOMAIN inputs |-> eng.states[inputs[i]].value])

\* weighted_sum / total_weight if total_weight > 0 else 0.5
NewContribution(weighted_sum, total_weight) ==
    IF total_weight > 0 THEN Quot(weighted_sum, total_weight) ELSE HALF

\* Damped that steps twice as far as the contribution is away
Damped_Overshoot(eng, new_contribution, old_value) ==
    new_contribution + (new_contribution - old_value)

\* damping_factor * new_contribution + (1 - damping_factor) * old_value
Damped(eng, new_contribution, old_value) ==
    Quot(eng.config.damping_factor * new_contribution
           + (SCALE - eng.config.damping_factor) * old_value, SCALE)

\* What the loop of _forward_pass yields for a variable it skips
Skip(eng) == [engine |-> eng, delta |-> 0, raised |-> FALSE]

\* _forward_pass, lines 190-216, for one unlocked variable with output
\* rules: the engine after it, the |damped - old| it records (0 when no
\* rule contributes), and whether a rule evaluation raised
ForwardUpdate(eng, var_name) ==
    LET rule_ids == Get(eng.var_to_output_rules, var_name, <<>>)
        evals == [i \in DOMAIN rule_ids |->
                     _evaluate_rule(eng, RuleById(eng, rule_ids[i]))]
        hits == SelectSeq(rule_ids,
                    LAMBDA id : _evaluate_rule(eng, RuleById(eng, id)).tag
                                    = "value")
        contributions == [i \in DOMAIN hits |->
                             _evaluate_rule(eng, RuleById(eng, hits[i])).value]
        weights == [i \in DOMAIN hits |->
                       Get(RuleById(eng, hits[i]), "weight", SCALE)]
        old_value == eng.states[var_name].value
        total_weight == SumSeq(weights)
        weighted_sum == SumSeq([i \in DOMAIN hits |->
                                   contributions[i] * weights[i]])
        damped_value == Damped(eng,
                               NewContribution(weighted_sum, total_weight),
                               old_value)
    IN  IF \E i \in DOMAIN evals : evals[i].tag = "raise"
        THEN [engine |-> eng, delta |-> 0, raised |-> TRUE]
        ELSE IF hits = <<>> THEN Skip(eng)
        ELSE [engine |-> [eng EXCEPT !.states[var_name].value =
                                         clamp(damped_value)],
              delta |-> Abs(damped_value - old_value),
              raised |-> FALSE]

\* ForwardVariable without the test of state.locked
ForwardVariable_IgnoresLock(eng, var_name) ==
    IF Get(eng.var_to_output_rules, var_name, <<>>) = <<>> THEN Skip(eng)
    ELSE ForwardUpdate(eng, var_name)

\* The body of the loop of _forward_pass for one variable, lines 182-216
ForwardVariable(eng, var_name) ==
    IF Get(eng.var_to_output_rules, var_name, <<>>) = <<>> THEN Skip(eng)
    ELSE IF eng.states[var_name].locked THEN Skip(eng)
    ELSE ForwardUpdate(eng, var_name)

RECURSIVE ForwardFrom(_, _, _)
ForwardFrom(eng, i, max_delta) ==
    IF i > Len(eng.variables)
    THEN [engine |-> eng, delta |-> max_delta, raised |-> FALSE]
    ELSE LET step == ForwardVariable(eng, eng.variables[i].name)
         IN  IF step.raised
             THEN [engine |-> step.engine, delta |-> max_delta, raised |-> TRUE]
             ELSE ForwardFrom(step.engine, i + 1, Max(max_delta, step.delta))

\* _forward_pass in which every variable is computed from the values the
\* pass began with
_forward_pass_Simultaneous(eng) ==
    LET step(n) == ForwardVariable(eng, n)
        deltas == {step(n).delta : n \in DOMAIN eng.states} \cup {0}
    IN  [engine |-> [eng EXCEPT !.states =
                        [n \in DOMAIN eng.states |->
                            step(n).engine.states[n]]],
         delta |-> CHOOSE d \in deltas : \A e \in deltas : e <= d,
         raised |-> \E n \in DOMAIN eng.states : step(n).raised]

_forward_pass(eng) == ForwardFrom(eng, 1, 0)

\* constraint.get("target", ""), a name or a list of names: a single name
\* is kept as the one-element list the code turns it into
Targets(constraint) == Get(constraint, "target", <<"">>)

\* The loop of _apply_attack over the targets from the i-th on.  The
\* source's value is read anew for every target.
RECURSIVE AttackTargets(_, _, _, _)
AttackTargets(eng, constraint, i, max_delta) ==
    LET targets == Targets(constraint)
        source == Get(constraint, "source", "")
        weight == Get(constraint, "weight", SCALE)
    IN  IF i > Len(targets) THEN [engine |-> eng, delta |-> max_delta]
        ELSE IF targets[i] \notin DOMAIN eng.states
                \/ eng.states[targets[i]].locked
        THEN AttackTargets(eng, constraint, i + 1, max_delta)
        ELSE LET old_value == eng.states[targets[i]].value
                 new_value == inhibit(old_value, eng.states[source].value,
                                      weight)
             IN  AttackTargets(
                     [eng EXCEPT !.states[targets[i]].value = new_value],
                     constraint, i + 1,
                     Max(max_delta, Abs(new_value - old_value)))

\* _apply_attack with the roles of source and target exchanged
_apply_attack_Swapped(eng, constraint) ==
    LET swapped == [constraint EXCEPT
                        !.source = Targets(constraint)[1],
                        !.target = <<Get(constraint, "source", "")>>]
    IN  IF swapped.source \notin DOMAIN eng.states
        THEN [engine |-> eng, delta |-> 0]
        ELSE AttackTargets(eng, swapped, 1, 0)

_apply_attack(eng, constraint) ==
    IF Get(constraint, "source", "") \notin DOMAIN eng.states
    THEN [engine |-> eng, delta |-> 0]
    ELSE AttackTargets(eng, constraint, 1, 0)

\* The loop of _apply_support over the targets from the i-th on
RECURSIVE SupportTargets(_, _, _, _)
SupportTargets(eng, constraint, i, max_delta) ==
    LET targets == Targets(constraint)
        source == Get(constraint, "source", "")
        weight == Get(constraint, "weight", SCALE)
    IN  IF i > Len(targets) THEN [engine |-> eng, delta |-> max_delta]
        ELSE IF targets[i] \notin DOMAIN eng.states
                \/ eng.states[targets[i]].locked
        THEN SupportTargets(eng, constraint, i + 1, max_delta)
        ELSE LET old_value == eng.states[targets[i]].value
                 new_value == support(old_value, eng.states[source].value,
                                      weight)
             IN  SupportTargets(
                     [eng EXCEPT !.states[targets[i]].value = new_value],
                     constraint, i + 1,
                     Max(max_delta, Abs(new_value - old_value)))

_apply_support(eng, constraint) ==
    IF Get(constraint, "source", "") \notin DOMAIN eng.states
    THEN [engine |-> eng, delta |-> 0]
    ELSE SupportTargets(eng, constraint, 1, 0)

\* logic.py mutex_normalize: the values scaled to sum to 1 when they sum to
\* more, and clamped.  The engine does not call it.
mutex_normalize(values) ==
    IF SumSeq(values) <= SCALE
    THEN [i \in DOMAIN values |-> clamp(values[i])]
    ELSE [i \in DOMAIN values |->
             clamp(Quot(values[i] * SCALE, SumSeq(values)))]

\* ApplyConstraint with a MUTEX branch that normalises the declared targets
\* that are not locked
ApplyConstraint_Normalising(eng, constraint) ==
    LET c_type == Get(constraint, "type", "")
        names == SelectSeq(Get(constraint, "target", <<>>),
                           LAMBDA n : /\ n \in DOMAIN eng.states
                                      /\ ~eng.states[n].locked)
        normal == mutex_normalize([i \in DOMAIN names |->
                                      eng.states[names[i]].value])
    IN  CASE c_type = "ATTACK" -> _apply_attack(eng, constraint)
          [] c_type = "SUPPORT" -> _apply_support(eng, constraint)
          [] c_type = "MUTEX" ->
               [engine |->
                    [eng EXCEPT !.states =
                        [n \in DOMAIN eng.states |->
                            IF \E i \in DOMAIN names : names[i] = n
                            THEN [eng.states[n] EXCEPT !.value =
                                     normal[CHOOSE i \in DOMAIN names :
                                                names[i] = n]]
                            ELSE eng.states[n]]],
                delta |-> 0]
          [] OTHER -> [engine |-> eng, delta |-> 0]

\* one constraint of the loop of _apply_constraints
ApplyConstraint(eng, constraint) ==
    LET c_type == Get(constraint, "type", "")
    IN  CASE c_type = "ATTACK" -> _apply_attack(eng, constraint)
          [] c_type = "SUPPORT" -> _apply_support(eng, constraint)
          [] OTHER -> [engine |-> eng, delta |-> 0]

RECURSIVE ConstraintsFrom(_, _, _)
ConstraintsFrom(eng, i, max_delta) ==
    IF i > Len(eng.constraints) THEN [engine |-> eng, delta |-> max_delta]
    ELSE LET step == ApplyConstraint(eng, eng.constraints[i])
         IN  ConstraintsFrom(step.engine, i + 1, Max(max_delta, step.delta))

_apply_constraints(eng) == ConstraintsFrom(eng, 1, 0)

\* Converged with <= in the place of <
Converged_AtThreshold(eng, total_delta) ==
    total_delta <= eng.config.convergence_threshold

\* total_delta < self.config.convergence_threshold
Converged(eng, total_delta) == total_delta < eng.config.convergence_threshold

\* The element of a one-element set.  Only({F(x) : x \in {e}}) is F(e)
\* with e evaluated once, however often F uses it.
Only(S) == CHOOSE x \in S : TRUE

\* One pass of the loop of run, lines 150-156, from a loop state: the
\* engine, the iterations started, whether an exception ended the loop, and
\* whether the loop is over
Iteration(s) ==
    IF s.stopped THEN s
    ELSE Only({ IF fwd.raised
                THEN [engine |-> fwd.engine, iters |-> s.iters + 1,
                      raised |-> TRUE, stopped |-> TRUE]
                ELSE Only({ [engine |-> cons.engine, iters |-> s.iters + 1,
                             raised |-> FALSE,
                             stopped |->
                                 Converged(s.engine,
                                           Max(fwd.delta, cons.delta))] :
                              cons \in {_apply_constraints(fwd.engine)} }) :
                  fwd \in {_forward_pass(s.engine)} })

\* at most n passes from the loop state s, the first half of them and then
\* the rest
RECURSIVE Iterations(_, _)
Iterations(s, n) ==
    IF n <= 0 \/ s.stopped THEN s
    ELSE IF n = 1 THEN Iteration(s)
    ELSE Only({ Iterations(half, n - (n \div 2)) :
                  half \in {Iterations(s, n \div 2)} })

\* The loop of run from the state eng with done iterations behind it:
\* the engine it leaves, the number of iterations it started, and whether
\* it ended by an exception
RunLoop(eng, max_iter, done) ==
    Only({ [engine |-> s.engine, iters |-> s.iters, raised |-> s.raised] :
             s \in {Iterations([engine |-> eng, iters |-> done,
                                raised |-> FALSE, stopped |-> FALSE],
                               max_iter - done)} })

\* run(evidence, iterations) as one step: the engine after the call, the
\* map returned, and whether the call raised instead of returning
run(eng, evidence, iterations) ==
    Only({ [engine |-> loop.engine, iters |-> loop.iters,
            raised |-> loop.raised, result |-> _get_all_values(loop.engine)] :
             loop \in {RunLoop(LockEvidence(_reset_to_priors(eng), evidence),
                               MaxIter(eng, iterations), 0)} })

-----------------------------------------------------------------------------
(* engine.py: training.  A loss is a sum of squared errors and is kept in  *)
(* units of 1 / (SCALE * SCALE), in which it is exact.                     *)

\* 0.001 as a loss
LOSS_THRESHOLD == 1000

\* rule["weight"] = weight
WithWeight(rule, weight) ==
    [k \in DOMAIN rule \cup {"weight"} |->
        IF k = "weight" THEN weight ELSE rule[k]]

\* _update_weights, lines 368-372: the mean over the rule's inputs of the
\* example's value for the input, else the input's current value, else 0.5
InputStrength(eng, rule, inputs) ==
    LET rule_inputs == Get(rule, "inputs", <<>>)
        strengths == [i \in DOMAIN rule_inputs |->
                         Get(inputs, rule_inputs[i],
                             IF rule_inputs[i] \in DOMAIN eng.states
                             THEN eng.states[rule_inputs[i]].value
                             ELSE HALF)]
    IN  Quot(SumSeq(strengths),
             IF Len(rule_inputs) > 0 THEN Len(rule_inputs) ELSE 1)

\* NewWeight with the sign of the update reversed
NewWeight_Descending(weight, delta) == clamp(weight - delta)

\* NewWeight without the clamp
NewWeight_Unclamped(weight, delta) == weight + delta

\* _update_weights, line 376
NewWeight(weight, delta) == clamp(weight + delta)

\* UpdateRule without the test of learnable
UpdateRule_IgnoresLearnable(eng, rule_id, error, inputs) ==
    [eng EXCEPT !.rules =
        DictPut(eng.rules,
                WithWeight(RuleById(eng, rule_id),
                           NewWeight(Get(RuleById(eng, rule_id), "weight",
                                         SCALE),
                                     Quot(error * eng.config.learning_rate
                                              * InputStrength(
                                                    eng,
                                                    RuleById(eng, rule_id),
                                                    inputs),
                                          SCALE * SCALE))))]

\* _update_weights, lines 363-377, for one rule id
UpdateRule(eng, rule_id, error, inputs) ==
    LET rule == RuleById(eng, rule_id)
        delta == Quot(error * eng.config.learning_rate
                          * InputStrength(eng, rule, inputs),
                      SCALE * SCALE)
    IN  IF "learnable" \in DOMAIN rule /\ rule.learnable = FALSE THEN eng
        ELSE [eng EXCEPT !.rules =
                 DictPut(eng.rules,
                         WithWeight(rule,
                                    NewWeight(Get(rule, "weight", SCALE),
                                              delta)))]

RECURSIVE UpdateRulesFrom(_, _, _, _, _)
UpdateRulesFrom(eng, rule_ids, i, error, inputs) ==
    IF i > Len(rule_ids) THEN eng
    ELSE Only({ UpdateRulesFrom(updated, rule_ids, i + 1, error, inputs) :
                  updated \in {UpdateRule(eng, rule_ids[i], error, inputs)} })

_update_weights(eng, target_var, error, inputs) ==
    UpdateRulesFrom(eng, Get(eng.var_to_output_rules, target_var, <<>>), 1,
                    error, inputs)

\* train, lines 342-348: the targets of one example from the i-th on,
\* given the map run returned; targets is a list of <<name, value>>
RECURSIVE TargetsFrom(_, _, _, _, _)
TargetsFrom(eng, example, output, i, loss) ==
    IF i > Len(example.targets) THEN [engine |-> eng, loss |-> loss]
    ELSE LET target_var == example.targets[i][1]
             target_value == example.targets[i][2]
             actual_value == Get(output, target_var, HALF)
             error == target_value - actual_value
         IN  Only({ TargetsFrom(updated, example, output, i + 1, total) :
                      updated \in {_update_weights(eng, target_var, error,
                                                   example.inputs)},
                      total \in {loss + error * error} })

\* train, lines 339-348: the examples of one epoch from the i-th on
RECURSIVE ExamplesFrom(_, _, _, _)
ExamplesFrom(eng, data, i, epoch_loss) ==
    IF i > Len(data)
    THEN [engine |-> eng, loss |-> epoch_loss, raised |-> FALSE]
    ELSE Only({ IF out.raised
                THEN [engine |-> out.engine, loss |-> epoch_loss,
                      raised |-> TRUE]
                ELSE Only({ ExamplesFrom(done.engine, data, i + 1, done.loss) :
                              done \in {TargetsFrom(out.engine, data[i],
                                                    out.result, 1,
                                                    epoch_loss)} }) :
                  out \in {run(eng, data[i].inputs, {})} })

\* the epochs of train without the test of the loss after an epoch
RECURSIVE EpochsFrom_NoEarlyStop(_, _, _, _, _)
EpochsFrom_NoEarlyStop(eng, data, epochs, epoch, final_loss) ==
    IF epoch >= epochs
    THEN [engine |-> eng, loss |-> final_loss, raised |-> FALSE,
          epochs_run |-> epoch]
    ELSE Only({ IF pass.raised
                THEN [engine |-> pass.engine, loss |-> final_loss,
                      raised |-> TRUE, epochs_run |-> epoch]
                ELSE EpochsFrom_NoEarlyStop(
                         pass.engine, data, epochs, epoch + 1,
                         Quot(pass.loss, Max(Len(data), 1))) :
                  pass \in {ExamplesFrom(eng, data, 1, 0)} })

\* train, lines 336-354: the epochs from the one numbered epoch on
RECURSIVE EpochsFrom(_, _, _, _, _)
EpochsFrom(eng, data, epochs, epoch, final_loss) ==
    IF epoch >= epochs
    THEN [engine |-> eng, loss |-> final_loss, raised |-> FALSE,
          epochs_run |-> epoch]
    ELSE Only({ IF pass.raised
                THEN [engine |-> pass.engine, loss |-> final_loss,
                      raised |-> TRUE, epochs_run |-> epoch]
                ELSE IF Quot(pass.loss, Max(Len(data), 1)) < LOSS_THRESHOLD
                THEN [engine |-> pass.engine,
                      loss |-> Quot(pass.loss, Max(Len(data), 1)),
                      raised |-> FALSE, epochs_run |-> epoch + 1]
                ELSE EpochsFrom(pass.engine, data, epochs, epoch + 1,
                                Quot(pass.loss, Max(Len(data), 1))) :
                  pass \in {ExamplesFrom(eng, data, 1, 0)} })

\* train(data, epochs): the engine after the call, the loss returned,
\* whether the call raised, and the number of epochs it ran
train(eng, data, epochs) == EpochsFrom(eng, data, epochs, 0, 0)

-----------------------------------------------------------------------------
(* engine.py: export and accessors *)

\* export() without the constraints
export_WithoutConstraints(eng) ==
    [version |-> "1.0", variables |-> eng.variables, rules |-> eng.rules,
     constraints |-> <<>>]

\* export(): the variables, the rules with their current weights and the
\* constraints, each in the engine's dictionary order
export(eng) ==
    [version |-> "1.0",
     variables |-> eng.variables,
     rules |-> eng.rules,
     constraints |-> eng.constraints]

\* set_value(variable, value): the engine after the call and what it returns
set_value(eng, variable, value) ==
    IF variable \in DOMAIN eng.states /\ ~eng.states[variable].locked
    THEN [engine |-> [eng EXCEPT !.states[variable].value = clamp(value)],
          returned |-> TRUE]
    ELSE [engine |-> eng, returned |-> FALSE]

\* get_rule_weight(rule_id): found is FALSE where the code returns None
get_rule_weight(eng, rule_id) ==
    IF \E i \in DOMAIN eng.rules : eng.rules[i].id = rule_id
    THEN [found |-> "weight" \in DOMAIN RuleById(eng, rule_id),
          weight |-> Get(RuleById(eng, rule_id), "weight", 0)]
    ELSE [found |-> FALSE, weight |-> 0]

\* set_rule_weight(rule_id, weight)
set_rule_weight(eng, rule_id, weight) ==
    IF \E i \in DOMAIN eng.rules : eng.rules[i].id = rule_id
    THEN [engine |-> [eng EXCEPT !.rules =
                         DictPut(eng.rules,
                                 WithWeight(RuleById(eng, rule_id),
                                            clamp(weight)))],
          returned |-> TRUE]
    ELSE [engine |-> eng, returned |-> FALSE]

\* The rule objects of the engine are the rule objects of the document it
\* was loaded from (_load, line 101, stores the reference): the document
\* as it reads once the engine has written to its rules
SharedDocument(doc, eng) ==
    [doc EXCEPT !.rules =
        [i \in DOMAIN doc.rules |->
            IF \E j \in DOMAIN eng.rules : eng.rules[j].id = doc.rules[i].id
            THEN RuleById(eng, doc.rules[i].id) ELSE doc.rules[i]]]

\* lock_variable that leaves a locked variable as it is
lock_variable_UnlessLocked(eng, variable, value) ==
    IF variable \in DOMAIN eng.states /\ ~eng.states[variable].locked
    THEN [engine |-> [eng EXCEPT !.states[variable] =
                          [value |-> clamp(value), locked |-> TRUE]],
          returned |-> TRUE]
    ELSE [engine |-> eng, returned |-> variable \in DOMAIN eng.states]

\* lock_variable(variable, value), lines 434-441
lock_variable(eng, variable, value) ==
    IF variable \in DOMAIN eng.states
    THEN [engine |-> [eng EXCEPT !.states[variable] =
                          [value |-> clamp(value), locked |-> TRUE]],
          returned |-> TRUE]
    ELSE [engine |-> eng, returned |-> FALSE]

-----------------------------------------------------------------------------
(* neuro_service.py, models.py: the bridge between the graph and the       *)
(* engine.  Node ids, edge ids and the names made from them are strings    *)
(* the code builds and takes apart: they are sequences of one-character    *)
(* strings here, so that a prefix is a prefix.                             *)

\* "node_"
NodePrefix == <<"n", "o", "d", "e", "_">>

Digit(d) ==
    CASE d = 0 -> "0" [] d = 1 -> "1" [] d = 2 -> "2" [] d = 3 -> "3"
      [] d = 4 -> "4" [] d = 5 -> "5" [] d = 6 -> "6" [] d = 7 -> "7"
      [] d = 8 -> "8" [] d = 9 -> "9"

\* the decimal digits of n, as an f-string formats an int
RECURSIVE Decimal(_)
Decimal(n) ==
    IF n < 10 THEN <<Digit(n)>>
    ELSE Decimal(n \div 10) \o <<Digit(n % 10)>>

\* s[:8]
Prefix8(s) == SubSeq(s, 1, Min(8, Len(s)))

\* CounterId without the counter
CounterId_WithoutCounter(kind, counter, assoc_id) ==
    kind \o <<"_">> \o Prefix8(assoc_id)

\* f"{kind}{counter}_{assoc.id[:8]}", kind being "rule_", "depends_", ...
CounterId(kind, counter, assoc_id) ==
    kind \o Decimal(counter) \o <<"_">> \o Prefix8(assoc_id)

\* LogicType
IMPLIES == "IMPLIES"

ATTACKS == "ATTACKS"

SUPPORTS == "SUPPORTS"

DEPENDS == "DEPENDS"

MUTEX == "MUTEX"

_node_to_var_name(node) == NodePrefix \o node.id

\* _var_name_to_node_id that strips every leading "node_"
RECURSIVE _var_name_to_node_id_StripsAll(_)
_var_name_to_node_id_StripsAll(var_name) ==
    IF Len(var_name) >= Len(NodePrefix)
         /\ SubSeq(var_name, 1, Len(NodePrefix)) = NodePrefix
    THEN _var_name_to_node_id_StripsAll(
             SubSeq(var_name, Len(NodePrefix) + 1, Len(var_name)))
    ELSE var_name

_var_name_to_node_id(var_name) ==
    IF Len(var_name) >= Len(NodePrefix)
         /\ SubSeq(var_name, 1, Len(NodePrefix)) = NodePrefix
    THEN SubSeq(var_name, Len(NodePrefix) + 1, Len(var_name))
    ELSE var_name

\* ContextGraph(nodes = {n.id: n}, associations = {a.id: a}, center_node_id)
extract_context(nodes, associations, center_node_id) ==
    [nodes |-> DictFromList(<<>>, nodes),
     associations |-> DictFromList(<<>>, associations),
     center_node_id |-> center_node_id]

\* context.nodes.get(node_id) is not None
HasNode(context, node_id) ==
    \E i \in DOMAIN context.nodes : context.nodes[i].id = node_id

\* context.nodes[node_id]
NodeById(context, node_id) ==
    context.nodes[CHOOSE i \in DOMAIN context.nodes :
                      context.nodes[i].id = node_id]

\* variables[var.name] = var on the variables dictionary
VarPut(variables, var) ==
    IF \E i \in DOMAIN variables : variables[i].name = var.name
    THEN [i \in DOMAIN variables |->
             IF variables[i].name = var.name THEN var ELSE variables[i]]
    ELSE Append(variables, var)

\* to_neuro_json, lines 125-131: the variables of the nodes from the i-th on
RECURSIVE VariablesFrom(_, _, _)
VariablesFrom(context, i, variables) ==
    IF i > Len(context.nodes) THEN variables
    ELSE VariablesFrom(
             context, i + 1,
             VarPut(variables,
                    [name |-> _node_to_var_name(context.nodes[i]),
                     type |-> "bool",
                     prior |-> context.nodes[i].prior,
                     locked |-> context.nodes[i].is_locked]))

\* to_neuro_json, lines 151-191: the rule of an IMPLIES or DEPENDS edge
EdgeRule(assoc, logic, source_var, target_var, rule_counter) ==
    [id |-> CounterId(IF logic.type = IMPLIES
                      THEN <<"r", "u", "l", "e", "_">>
                      ELSE <<"d", "e", "p", "e", "n", "d", "s", "_">>,
                      rule_counter, assoc.id),
     type |-> "IMPLICATION",
     inputs |-> <<source_var>>,
     output |-> target_var,
     op |-> logic.op,
     weight |-> IF logic.type = IMPLIES THEN logic.weight
                ELSE Mul(logic.weight, HALF),
     learnable |-> logic.learnable]

\* to_neuro_json, lines 162-179: the constraint of an ATTACKS or SUPPORTS
\* edge; its target is one name
EdgeConstraint(assoc, logic, source_var, target_var, constraint_counter) ==
    [id |-> CounterId(IF logic.type = ATTACKS
                      THEN <<"a", "t", "t", "a", "c", "k", "_">>
                      ELSE <<"s", "u", "p", "p", "o", "r", "t", "_">>,
                      constraint_counter, assoc.id),
     type |-> IF logic.type = ATTACKS THEN "ATTACK" ELSE "SUPPORT",
     source |-> source_var,
     target |-> <<target_var>>,
     weight |-> logic.weight]

\* to_neuro_json, lines 134-191: the rules and constraints of the edges from
\* the i-th on; logic_meta is {} for None and {meta} otherwise
RECURSIVE AssociationsFrom(_, _, _, _, _, _)
AssociationsFrom(context, i, rules, constraints, rule_counter, constraint_counter) ==
    IF i > Len(context.associations)
    THEN [rules |-> rules, constraints |-> constraints]
    ELSE LET assoc == context.associations[i]
             logic == CHOOSE meta \in assoc.logic_meta : TRUE
             source_var ==
                 _node_to_var_name(NodeById(context, assoc.source_id))
             target_var ==
                 _node_to_var_name(NodeById(context, assoc.target_id))
         IN  IF \/ assoc.logic_meta = {}
                \/ ~HasNode(context, assoc.source_id)
                \/ ~HasNode(context, assoc.target_id)
                \/ logic.type \notin {IMPLIES, ATTACKS, SUPPORTS, DEPENDS}
             THEN AssociationsFrom(context, i + 1, rules, constraints,
                                   rule_counter, constraint_counter)
             ELSE IF logic.type \in {IMPLIES, DEPENDS}
             THEN AssociationsFrom(
                      context, i + 1,
                      Append(rules,
                             EdgeRule(assoc, logic, source_var, target_var,
                                      rule_counter + 1)),
                      constraints, rule_counter + 1, constraint_counter)
             ELSE AssociationsFrom(
                      context, i + 1, rules,
                      Append(constraints,
                             EdgeConstraint(assoc, logic, source_var,
                                            target_var,
                                            constraint_counter + 1)),
                      rule_counter, constraint_counter + 1)

to_neuro_json(context) ==
    [version |-> "1.0",
     name |-> <<"c", "o", "n", "t", "e", "x", "t", "_">>
                  \o Prefix8(context.center_node_id),
     variables |-> VariablesFrom(context, 1, <<>>),
     rules |-> AssociationsFrom(context, 1, <<>>, <<>>, 0, 0).rules,
     constraints |->
         AssociationsFrom(context, 1, <<>>, <<>>, 0, 0).constraints]

\* NeuroService.config, lines 57-62
SERVICE_MAX_ITERATIONS == 50

\* run_inference, lines 238-243
ServiceConfig(iterations) ==
    [max_iterations |-> IF iterations = {} \/ iterations = {0}
                        THEN SERVICE_MAX_ITERATIONS
                        ELSE CHOOSE k \in iterations : TRUE,
     convergence_threshold |-> DEFAULT_CONVERGENCE_THRESHOLD,
     learning_rate |-> DEFAULT_LEARNING_RATE,
     damping_factor |-> DEFAULT_DAMPING_FACTOR]

\* run_inference, lines 247-252: evidence by node id to evidence by
\* variable name, the evidence for names that are no variable dropped
VarEvidence(doc, evidence) ==
    LET known == {node_id \in DOMAIN evidence :
                     NodePrefix \o node_id \in Names(doc.variables)}
    IN  [var_name \in {NodePrefix \o node_id : node_id \in known} |->
            evidence[CHOOSE node_id \in known :
                         NodePrefix \o node_id = var_name]]

\* run_inference, lines 258-261: the map by node id of a map by variable
\* name that run returned; of two names of one node id the later one in
\* the order of the map gives the value
NodeResults(variables, result) ==
    LET at(node_id) ==
            CHOOSE i \in DOMAIN variables :
                /\ _var_name_to_node_id(variables[i].name) = node_id
                /\ \A j \in DOMAIN variables :
                       _var_name_to_node_id(variables[j].name) = node_id
                           => j <= i
    IN  [node_id \in {_var_name_to_node_id(variables[i].name) :
                          i \in DOMAIN variables} |->
            result[variables[at(node_id)].name]]

\* run_inference(context, evidence, iterations): the schema and the engine
\* it built, the map it returns, and whether it raised
run_inference(context, evidence, iterations) ==
    Only({ Only({ [schema |-> doc, engine |-> out.engine,
                   raised |-> out.raised,
                   result |-> IF out.raised THEN <<>>
                              ELSE NodeResults(doc.variables, out.result)] :
                    out \in {run(NeuroEngine(doc, ServiceConfig(iterations)),
                                 VarEvidence(doc, evidence), iterations)} }) :
             doc \in {to_neuro_json(context)} })

\* query_node, lines 322-323
query_node(context, node_id, evidence) ==
    Only({ [schema |-> out.schema, engine |-> out.engine,
            raised |-> out.raised,
            value |-> IF out.raised THEN 0
                      ELSE Get(out.result, node_id, HALF)] :
             out \in {run_inference(context, evidence, {})} })

\* "tags" in node.payload and node.prototype_ids, lines 366-367
BearsTag(node, tag) ==
    \/ \E i \in DOMAIN Get(node, "tags", <<>>) : node.tags[i] = tag
    \/ \E i \in DOMAIN Get(node, "prototype_ids", <<>>) :
           node.prototype_ids[i] = tag

\* the edge of an abstract rule grounded at a node, with the node itself
\* as the target
GroundedAssociation_AtNode(id, node_id, rule) ==
    [id |-> id,
     source_id |-> node_id,
     target_id |-> node_id,
     relation |-> <<"g", "r", "o", "u", "n", "d", "e", "d", "_">>
                      \o Get(rule, "source_type", <<>>) \o <<"_">>
                      \o Get(rule, "target_type", <<>>),
     logic_meta |-> IF Get(rule, "logic_type", "IMPLIES") = "" THEN {}
                    ELSE {[type |-> Get(rule, "logic_type", "IMPLIES"),
                           weight |-> Get(rule, "weight", SCALE),
                           op |-> "IDENTITY", learnable |-> TRUE]}]

\* Association.create, lines 371-377 and models.py 170-195: the edge of an
\* abstract rule grounded at a node, under the id gen_id() returned
GroundedAssociation(id, node_id, rule) ==
    LET source_type == Get(rule, "source_type", <<>>)
        target_type == Get(rule, "target_type", <<>>)
        logic_type == Get(rule, "logic_type", "IMPLIES")
    IN  [id |-> id,
         source_id |-> node_id,
         target_id |-> node_id \o <<"_">> \o target_type,
         relation |-> <<"g", "r", "o", "u", "n", "d", "e", "d", "_">>
                          \o source_type \o <<"_">> \o target_type,
         logic_meta |-> IF logic_type = "" THEN {}
                        ELSE {[type |-> logic_type,
                               weight |-> Get(rule, "weight", SCALE),
                               op |-> "IDENTITY", learnable |-> TRUE]}]

\* ground_abstract_rules, lines 356-378: the rules from the r-th on, the
\* nodes from the n-th on for the r-th; ids are the ids gen_id() returns
RECURSIVE GroundFrom(_, _, _, _, _, _)
GroundFrom(context, abstract_rules, ids, r, n, grounded) ==
    IF r > Len(abstract_rules) THEN grounded
    ELSE IF \/ Get(abstract_rules[r], "source_type", <<>>) = <<>>
            \/ Get(abstract_rules[r], "target_type", <<>>) = <<>>
            \/ n > Len(context.nodes)
    THEN GroundFrom(context, abstract_rules, ids, r + 1, 1, grounded)
    ELSE IF BearsTag(context.nodes[n], abstract_rules[r].source_type)
    THEN GroundFrom(context, abstract_rules, Tail(ids), r, n + 1,
                    DictPut(grounded,
                            GroundedAssociation(Head(ids),
                                                context.nodes[n].id,
                                                abstract_rules[r])))
    ELSE GroundFrom(context, abstract_rules, ids, r, n + 1, grounded)

\* ground_abstract_rules(context, abstract_rules), lines 354-384
ground_abstract_rules(context, abstract_rules, ids) ==
    [nodes |-> context.nodes,
     associations |-> GroundFrom(context, abstract_rules, ids, 1, 1,
                                 context.associations),
     center_node_id |-> context.center_node_id]

\* The storage collaborator is outside the repository.  It is a list of
\* nodes and a list of edges; configured is FALSE for a service constructed
\* with db = None.
Storage(nodes, associations) ==
    [configured |-> TRUE, nodes |-> nodes, associations |-> associations]

NoDb == [configured |-> FALSE, nodes |-> <<>>, associations |-> <<>>]

\* the ids one hop from ids, along an edge in either direction
Neighbours(store, ids) ==
    ids \cup {store.associations[i].target_id :
                 i \in {j \in DOMAIN store.associations :
                           store.associations[j].source_id \in ids}}
        \cup {store.associations[i].source_id :
                 i \in {j \in DOMAIN store.associations :
                           store.associations[j].target_id \in ids}}

RECURSIVE Reach(_, _, _)
Reach(store, ids, depth) ==
    IF depth = 0 THEN ids
    ELSE Reach(store, Neighbours(store, ids), depth - 1)

\* db.get_neighborhood(center_node_id, depth): the stored nodes within depth
\* hops of the centre and the edges between the ids within depth hops
get_neighborhood(store, center_node_id, depth) ==
    LET ids == Reach(store, {center_node_id}, depth)
    IN  [nodes |-> SelectSeq(store.nodes, LAMBDA n : n.id \in ids),
         associations |->
             SelectSeq(store.associations,
                       LAMBDA a : a.source_id \in ids /\ a.target_id \in ids)]

\* db.bulk_update_nodes(updates): each update sets the truth_value of the
\* node of its id; of two updates of one node the later one stays
bulk_update_nodes(store, updates) ==
    [store EXCEPT !.nodes =
        [i \in DOMAIN store.nodes |->
            LET mine == {u \in DOMAIN updates :
                            updates[u].id = store.nodes[i].id}
            IN  IF mine = {} THEN store.nodes[i]
                ELSE [store.nodes[i] EXCEPT !.truth_value =
                         updates[CHOOSE u \in mine :
                                     \A v \in mine : v <= u].truth_value]]]

\* fetch_context without the test for a database
fetch_context_Unchecked(store, center_node_id, depth) ==
    [raised |-> FALSE, error |-> "",
     context |->
         extract_context(
             get_neighborhood(store, center_node_id, depth).nodes,
             get_neighborhood(store, center_node_id, depth).associations,
             center_node_id)]

\* fetch_context(center_node_id, depth): the context, or the RuntimeError
\* raised when no database is configured
fetch_context(store, center_node_id, depth) ==
    IF ~store.configured
    THEN [raised |-> TRUE, error |-> "RuntimeError", context |-> <<>>]
    ELSE [raised |-> FALSE, error |-> "",
          context |->
              extract_context(
                  get_neighborhood(store, center_node_id, depth).nodes,
                  get_neighborhood(store, center_node_id, depth).associations,
                  center_node_id)]

\* solve_context, lines 297-300: the updates of a result map, one per key in
\* the order the keys entered the map
RECURSIVE UpdatesFrom(_, _, _, _)
UpdatesFrom(variables, result, i, updates) ==
    IF i > Len(variables) THEN updates
    ELSE LET node_id == _var_name_to_node_id(variables[i].name)
         IN  UpdatesFrom(
                 variables, result, i + 1,
                 IF \E u \in DOMAIN updates : updates[u].id = node_id
                 THEN updates
                 ELSE Append(updates,
                             [id |-> node_id,
                              truth_value |-> result[node_id]]))

\* solve_context(center_node_id, depth, evidence, write_back): whether it
\* raised and what, whether inference ran and what it built and returned,
\* whether bulk_update_nodes was called and with what, and the storage
\* after the call
solve_context(store, center_node_id, depth, evidence, write_back) ==
    IF fetch_context(store, center_node_id, depth).raised
    THEN [raised |-> TRUE, error |-> "RuntimeError", ran |-> FALSE,
          schema |-> <<>>, engine |-> <<>>, result |-> <<>>,
          wrote |-> FALSE, updates |-> <<>>, db |-> store]
    ELSE Only({ IF out.raised
                THEN [raised |-> TRUE, error |-> "ValueError", ran |-> TRUE,
                      schema |-> out.schema, engine |-> out.engine,
                      result |-> <<>>, wrote |-> FALSE, updates |-> <<>>,
                      db |-> store]
                ELSE Only({ [raised |-> FALSE, error |-> "", ran |-> TRUE,
                             schema |-> out.schema, engine |-> out.engine,
                             result |-> out.result,
                             wrote |-> write_back /\ store.configured,
                             updates |-> IF write_back /\ store.configured
                                         THEN updates ELSE <<>>,
                             db |-> IF write_back /\ store.configured
                                    THEN bulk_update_nodes(store, updates)
                                    ELSE store] :
                              updates \in {UpdatesFrom(out.schema.variables,
                                                       out.result, 1,
                                                       <<>>)} }) :
                  out \in {run_inference(
                               fetch_context(store, center_node_id,
                                             depth).context,
                               evidence, {})} })

-----------------------------------------------------------------------------
(* The schemas, configurations and arguments the engine is exercised on *)

\* largest max_iterations of a configuration and largest iterations argument
MaxIterations == 2

\* number of API calls in one behaviour
MaxCalls == 2

Var(name, prior) == [name |-> name, type |-> "bool", prior |-> prior]

LockedVar(name, prior) ==
    [name |-> name, type |-> "bool", prior |-> prior, locked |-> TRUE]

\* Three variables a, b, c in this insertion order; "z" is never declared.
\* The third list has priors outside [0, 1], which _load accepts.
VariableLists ==
    { <<Var("a", 300), Var("b", 100), Var("c", 700)>>,
      <<Var("a", 800), LockedVar("b", 200),
        [name |-> "c", type |-> "continuous"]>>,
      <<Var("a", 1500), Var("b", 0 - 200), LockedVar("c", 600)>> }

Rule(id, type, op, inputs, output, weight) ==
    [id |-> id, type |-> type, op |-> op, inputs |-> inputs,
     output |-> output, weight |-> weight]

\* rules that output to b
RulesToB(id) ==
    { Rule(id, "IMPLICATION", "IDENTITY", <<"a">>, "b", 900),
      Rule(id, "IMPLICATION", "not", <<"a">>, "b", 500),
      Rule(id, "IMPLICATION", "AND", <<"a", "c">>, "b", 1000),
      Rule(id, "IMPLICATION", "OR", <<"a", "c">>, "b", 800),
      Rule(id, "IMPLICATION", "WEIGHTED", <<"a", "c">>, "b", 1000),
      Rule(id, "IMPLICATION", "IDENTITY", <<"a">>, "b", 0),
      Rule(id, "IMPLICATION", "IDENTITY", <<"z">>, "b", 900),
      Rule(id, "IMPLICATION", "XOR", <<"a">>, "b", 900),
      Rule(id, "IMPLICATION", "XOR", <<"z">>, "b", 900),
      Rule(id, "CONJUNCTION", "AND", <<"a", "c">>, "b", 900),
      Rule(id, "DISJUNCTION", "OR", <<"a", "c">>, "b", 700),
      Rule(id, "EQUIVALENCE", "IDENTITY", <<"a", "c">>, "b", 1000),
      Rule(id, "EQUIVALENCE", "IDENTITY", <<>>, "b", 800),
      Rule(id, "NAND", "IDENTITY", <<"a">>, "b", 900),
      [id |-> id, inputs |-> <<"a">>, output |-> "b"],
      [id |-> id, type |-> "IMPLICATION", op |-> "IDENTITY",
       inputs |-> <<"c">>, output |-> "b", weight |-> 600,
       learnable |-> FALSE] }

\* rules that output elsewhere: to c, and to the undeclared z
RulesElsewhere(id) ==
    { Rule(id, "IMPLICATION", "IDENTITY", <<"b">>, "c", 800),
      Rule(id, "IMPLICATION", "IDENTITY", <<"a">>, "z", 900),
      Rule(id, "IMPLICATION", "XOR", <<"a">>, "z", 900) }

\* a second rule for the output of a first one, or chained behind it
SecondRules(id) ==
    { Rule(id, "IMPLICATION", "IDENTITY", <<"c">>, "b", 300),
      Rule(id, "IMPLICATION", "IDENTITY", <<"c">>, "b", 0),
      Rule(id, "IMPLICATION", "IDENTITY", <<"b">>, "c", 800) }

FirstRules ==
    { Rule("r1", "IMPLICATION", "IDENTITY", <<"a">>, "b", 900),
      Rule("r1", "IMPLICATION", "IDENTITY", <<"a">>, "b", 0),
      Rule("r1", "IMPLICATION", "IDENTITY", <<"z">>, "b", 900),
      Rule("r1", "NAND", "IDENTITY", <<"a">>, "b", 900) }

RuleLists ==
    {<<>>}
      \cup {<<r>> : r \in RulesToB("r1") \cup RulesElsewhere("r1")}
      \cup {<<r1, r2>> : r1 \in FirstRules, r2 \in SecondRules("r2")}

Constraint(id, type, source, target, weight) ==
    [id |-> id, type |-> type, source |-> source, target |-> target,
     weight |-> weight]

Constraints(id) ==
    { Constraint(id, "ATTACK", "a", <<"b">>, 1000),
      Constraint(id, "ATTACK", "a", <<"b", "z", "c">>, 500),
      Constraint(id, "ATTACK", "z", <<"b">>, 1000),
      Constraint(id, "SUPPORT", "a", <<"c">>, 800),
      Constraint(id, "SUPPORT", "c", <<"z", "b">>, 500),
      Constraint(id, "MUTEX", "a", <<"b", "c">>, 1000),
      Constraint(id, "EXCLUDES", "a", <<"b">>, 1000),
      [id |-> id, type |-> "SUPPORT", source |-> "a", target |-> <<"b">>] }

ConstraintLists ==
    {<<>>}
      \cup {<<c>> : c \in Constraints("c1")}
      \cup { <<Constraint("c1", "SUPPORT", "a", <<"b">>, 600), c>> :
                c \in { Constraint("c2", "ATTACK", "b", <<"c">>, 700),
                        Constraint("c2", "ATTACK", "c", <<"b">>, 700) } }
      \cup { <<Constraint("c1", "ATTACK", "a", <<"c">>, 300),
               Constraint("c2", "SUPPORT", "a", <<"c">>, 800)>> }

Document(variables, rules, constraints) ==
    [version |-> "1.0", variables |-> variables, rules |-> rules,
     constraints |-> constraints]

\* Every rule list without constraints, and every constraint list behind
\* the rule a -> b.  Rule ids and constraint ids are unique within a
\* schema.
Schemas ==
    {Document(v, r, <<>>) : v \in VariableLists, r \in RuleLists}
      \cup { Document(v,
                      <<Rule("r1", "IMPLICATION", "IDENTITY", <<"a">>, "b",
                             900)>>,
                      c) : v \in VariableLists, c \in ConstraintLists }

Configs ==
    { [max_iterations |-> m,
       convergence_threshold |-> DEFAULT_CONVERGENCE_THRESHOLD,
       learning_rate |-> DEFAULT_LEARNING_RATE,
       damping_factor |-> DEFAULT_DAMPING_FACTOR] : m \in 1..MaxIterations }

\* the configurations run is exercised under: those above, and one with a
\* threshold of 0.105, which the delta of a first iteration can equal
RunConfigs ==
    Configs \cup { [max_iterations |-> MaxIterations,
                    convergence_threshold |-> 105,
                    learning_rate |-> DEFAULT_LEARNING_RATE,
                    damping_factor |-> DEFAULT_DAMPING_FACTOR] }

\* evidence maps: names to values, some undeclared, some outside [0, 1]
Evidences ==
    { <<>>,
      [a |-> 1000],
      [b |-> 1200, z |-> 500],
      [a |-> 0 - 100, c |-> 400] }

\* the iterations argument: None, or an integer
IterationArgs == {{}} \cup {{k} : k \in 0..MaxIterations}

-----------------------------------------------------------------------------
(* The engine as a state machine: one API call at a time *)

\* repeats: the call repeats the arguments of the run that returned just
\* before it; before: the map that run returned; locked_before: the
\* variables that were locked when the call began
NoFrame ==
    [op |-> "none", evidence |-> <<>>, iterations |-> {}, variable |-> "",
     max_iter |-> 0, iter |-> 0, rule_delta |-> 0, total_delta |-> 0,
     repeats |-> FALSE, before |-> <<>>,
     locked_before |-> {}]

\* a finished call: its arguments, whether it raised, what it returned
Call(op, evidence, iterations, variable, value) ==
    [op |-> op, evidence |-> evidence, iterations |-> iterations,
     variable |-> variable, value |-> value, raised |-> FALSE,
     converged |-> FALSE,
     result |-> <<>>, returned |-> FALSE, iters |-> 0, max_iter |-> 0,
     total_delta |-> 0, repeats |-> FALSE, before |-> <<>>,
     locked_before |-> {}, data |-> <<>>, epochs |-> 0,
     rules_before |-> <<>>, context |-> <<>>, error |-> "",
     ran |-> FALSE, wrote |-> FALSE, updates |-> <<>>, db_before |-> NoDb]

NoCall == Call("none", <<>>, {}, "", 0)

Init ==
    /\ schema \in Schemas
    /\ \E config \in RunConfigs : engine = NeuroEngine(schema, config)
    /\ pc = "idle"
    /\ frame = NoFrame
    /\ last = NoCall
    /\ ncalls = 0
    /\ db = NoDb
    /\ operands = <<0, 0>>
    /\ tasks = <<>>
    /\ calls = <<>>

\* the call about to begin is a run with the arguments of the run that
\* returned just before it
Repeats(op, evidence, iterations) ==
    /\ op = "run"
    /\ last.op = "run"
    /\ ~last.raised
    /\ last.evidence = evidence
    /\ last.iterations = iterations

\* run, lines 137-147: entry, reset, evidence
Begin(op, evidence, iterations, variable) ==
    /\ pc = "idle"
    /\ ncalls < MaxCalls
    /\ engine' = LockEvidence(_reset_to_priors(engine), evidence)
    /\ frame' = [NoFrame EXCEPT !.op = op, !.evidence = evidence,
                                !.iterations = iterations,
                                !.variable = variable,
                                !.max_iter = MaxIter(engine, iterations),
                                !.repeats = Repeats(op, evidence, iterations),
                                !.before =
                                    IF Repeats(op, evidence, iterations)
                                    THEN last.result ELSE <<>>,
                                !.locked_before =
                                    {n \in DOMAIN engine.states :
                                        engine.states[n].locked}]
    /\ pc' = "forward"
    /\ ncalls' = ncalls + 1
    /\ last' = NoCall
    /\ UNCHANGED <<schema, db, operands, tasks, calls>>

Run ==
    \E evidence \in Evidences, iterations \in IterationArgs :
        Begin("run", evidence, iterations, "")

\* query(variable, evidence) calls run(evidence)
Query ==
    \E arg \in {<<"b", [a |-> 1000]>>, <<"z", <<>>>>} :
        Begin("query", arg[2], {}, arg[1])

\* run, line 151: the forward pass of an iteration
ForwardStep ==
    /\ pc = "forward"
    /\ frame.iter < frame.max_iter
    /\ ~_forward_pass(engine).raised
    /\ engine' = _forward_pass(engine).engine
    /\ frame' = [frame EXCEPT !.rule_delta = _forward_pass(engine).delta]
    /\ pc' = "constraints"
    /\ UNCHANGED <<schema, last, ncalls, db, operands, tasks, calls>>

\* the forward pass raises: the exception leaves run (and query)
ForwardRaise ==
    /\ pc = "forward"
    /\ frame.iter < frame.max_iter
    /\ _forward_pass(engine).raised
    /\ engine' = _forward_pass(engine).engine
    /\ last' = [Call(frame.op, frame.evidence, frame.iterations,
                     frame.variable, 0)
                  EXCEPT !.raised = TRUE, !.iters = frame.iter,
                         !.max_iter = frame.max_iter]
    /\ frame' = NoFrame
    /\ pc' = "idle"
    /\ UNCHANGED <<schema, ncalls, db, operands, tasks, calls>>

\* run, lines 152-156: the constraint pass and the convergence test
ConstraintStep ==
    /\ pc = "constraints"
    /\ LET cons == _apply_constraints(engine)
           total_delta == Max(frame.rule_delta, cons.delta)
       IN  /\ engine' = cons.engine
           /\ frame' = [frame EXCEPT !.iter = frame.iter + 1,
                                     !.total_delta = total_delta]
           /\ pc' = IF Converged(engine, total_delta)
                    THEN "break" ELSE "forward"
    /\ UNCHANGED <<schema, last, ncalls, db, operands, tasks, calls>>

\* run, line 158 (and query, line 163): the loop is over, the call returns
Return ==
    /\ \/ pc = "forward" /\ frame.iter >= frame.max_iter
       \/ pc = "break"
    /\ LET result == _get_all_values(engine)
       IN  last' = [Call(frame.op, frame.evidence, frame.iterations,
                         frame.variable,
                         IF frame.op = "query"
                         THEN Get(result, frame.variable, HALF) ELSE 0)
                      EXCEPT !.result = result, !.iters = frame.iter,
                             !.max_iter = frame.max_iter,
                             !.total_delta = frame.total_delta,
                             !.repeats = frame.repeats,
                             !.before = frame.before,
                             !.locked_before = frame.locked_before,
                             !.converged = (pc = "break")]
    /\ frame' = NoFrame
    /\ pc' = "idle"
    /\ UNCHANGED <<schema, engine, ncalls, db, operands, tasks, calls>>

SetterArgs == {<<"b", 1300>>, <<"c", 0 - 100>>, <<"z", 900>>}

SetValue ==
    \E arg \in SetterArgs :
        /\ pc = "idle"
        /\ ncalls < MaxCalls
        /\ engine' = set_value(engine, arg[1], arg[2]).engine
        /\ last' = [Call("set_value", <<>>, {}, arg[1], arg[2])
                      EXCEPT !.returned =
                                 set_value(engine, arg[1], arg[2]).returned]
        /\ ncalls' = ncalls + 1
        /\ UNCHANGED <<schema, pc, frame, db, operands, tasks, calls>>

LockArgs == {<<"b", 900>>, <<"c", 1200>>, <<"z", 500>>}

LockVariable ==
    \E arg \in LockArgs :
        /\ pc = "idle"
        /\ ncalls < MaxCalls
        /\ engine' = lock_variable(engine, arg[1], arg[2]).engine
        /\ last' = [Call("lock_variable", <<>>, {}, arg[1], arg[2])
                      EXCEPT !.returned =
                                 lock_variable(engine, arg[1], arg[2]).returned]
        /\ ncalls' = ncalls + 1
        /\ UNCHANGED <<schema, pc, frame, db, operands, tasks, calls>>

\* largest epochs argument of train
MaxEpochs == 2

Example(inputs, targets) == [inputs |-> inputs, targets |-> targets]

\* training sets: lists of examples, each the evidence and the targets as
\* a list of <<name, value>>
TrainingSets ==
    { <<>>,
      <<Example([a |-> 1000], <<<<"b", 950>>>>)>>,
      <<Example([a |-> 1000], <<<<"b", 0>>, <<"z", 800>>>>),
        Example(<<>>, <<<<"c", 1000>>>>)>>,
      <<Example(<<>>, <<<<"a", 320>>>>)>> }

Train ==
    \E data \in TrainingSets, epochs \in 0..MaxEpochs :
        \E out \in {train(engine, data, epochs)} :
            /\ pc = "idle"
            /\ ncalls < MaxCalls
            /\ engine' = out.engine
            /\ schema' = SharedDocument(schema, out.engine)
            /\ last' = [Call("train", <<>>, {}, "", out.loss)
                          EXCEPT !.raised = out.raised,
                                 !.iters = out.epochs_run,
                                 !.data = data, !.epochs = epochs,
                                 !.rules_before = engine.rules]
            /\ ncalls' = ncalls + 1
            /\ UNCHANGED <<pc, frame, db, operands, tasks, calls>>

WeightArgs == {<<"r1", 1500>>, <<"r2", 0 - 200>>, <<"r9", 500>>}

SetRuleWeight ==
    \E arg \in WeightArgs :
        /\ pc = "idle"
        /\ ncalls < MaxCalls
        /\ engine' = set_rule_weight(engine, arg[1], arg[2]).engine
        /\ schema' = SharedDocument(schema, engine')
        /\ last' = [Call("set_rule_weight", <<>>, {}, arg[1], arg[2])
                      EXCEPT !.returned =
                                 set_rule_weight(engine, arg[1], arg[2]).returned,
                             !.rules_before = engine.rules]
        /\ ncalls' = ncalls + 1
        /\ UNCHANGED <<pc, frame, db, operands, tasks, calls>>

GetRuleWeight ==
    \E rule_id \in {"r1", "r9"} :
        /\ pc = "idle"
        /\ ncalls < MaxCalls
        /\ last' = [Call("get_rule_weight", <<>>, {}, rule_id,
                         get_rule_weight(engine, rule_id).weight)
                      EXCEPT !.returned =
                                 get_rule_weight(engine, rule_id).found]
        /\ ncalls' = ncalls + 1
        /\ UNCHANGED <<schema, engine, pc, frame, db, operands, tasks, calls>>

Next ==
    \/ Run
    \/ Query
    \/ ForwardStep
    \/ ForwardRaise
    \/ ConstraintStep
    \/ Return
    \/ SetValue
    \/ LockVariable

Spec == Init /\ [][Next]_vars

\* rule lists of the schemas under training: one rule or two for an
\* output, weights at both ends of [0, 1] and absent, a rule that is not
\* learnable, one whose operator raises, one with no inputs, one whose
\* output is undeclared
LearnRuleLists ==
    { <<Rule("r1", "IMPLICATION", "IDENTITY", <<"a">>, "b", 900)>>,
      <<Rule("r1", "IMPLICATION", "AND", <<"a", "c">>, "b", 1000)>>,
      <<Rule("r1", "IMPLICATION", "IDENTITY", <<"a">>, "b", 0)>>,
      <<[id |-> "r1", type |-> "IMPLICATION", op |-> "IDENTITY",
         inputs |-> <<"a">>, output |-> "b", weight |-> 500,
         learnable |-> TRUE]>>,
      <<Rule("r1", "IMPLICATION", "IDENTITY", <<"a">>, "b", 1000)>>,
      <<Rule("r1", "IMPLICATION", "XOR", <<"a">>, "b", 900)>>,
      <<Rule("r1", "EQUIVALENCE", "IDENTITY", <<>>, "b", 800)>>,
      <<Rule("r1", "IMPLICATION", "IDENTITY", <<"a">>, "z", 900)>>,
      <<[id |-> "r1", inputs |-> <<"a">>, output |-> "b"]>>,
      <<[id |-> "r1", type |-> "IMPLICATION", op |-> "IDENTITY",
         inputs |-> <<"c">>, output |-> "b", weight |-> 600,
         learnable |-> FALSE]>>,
      <<Rule("r1", "IMPLICATION", "IDENTITY", <<"a">>, "b", 900),
        Rule("r2", "IMPLICATION", "IDENTITY", <<"c">>, "b", 300)>>,
      <<Rule("r1", "IMPLICATION", "IDENTITY", <<"a">>, "b", 0),
        Rule("r2", "IMPLICATION", "IDENTITY", <<"b">>, "c", 800)>> }

LearnSchemas ==
    {Document(v, r, <<>>) : v \in VariableLists, r \in LearnRuleLists}
      \cup { d \in Schemas :
                d.constraints
                    = <<Constraint("c1", "ATTACK", "a", <<"b">>, 1000)>> }

\* the configurations under training: one iteration to a run
LearnConfigs == {config \in Configs : config.max_iterations = 1}

InitLearn ==
    /\ schema \in LearnSchemas
    /\ \E config \in LearnConfigs : engine = NeuroEngine(schema, config)
    /\ pc = "idle"
    /\ frame = NoFrame
    /\ last = NoCall
    /\ ncalls = 0
    /\ db = NoDb
    /\ operands = <<0, 0>>
    /\ tasks = <<>>
    /\ calls = <<>>

\* The engine under training: train and the weight accessors
NextLearn ==
    \/ Train
    \/ SetRuleWeight
    \/ GetRuleWeight

SpecLearn == InitLearn /\ [][NextLearn]_vars

\* the state setters alone, on the schemas under training
NextSetters ==
    \/ SetValue
    \/ LockVariable
    \/ SetRuleWeight

SpecSetters == InitLearn /\ [][NextSetters]_vars

\* The schemas of one IDENTITY implication a -> b: the weight of the rule
\* and the prior of b vary
SingleSchemas ==
    { Document(<<Var("a", 300), Var("b", prior)>>,
               <<Rule("a_to_b", "IMPLICATION", "IDENTITY", <<"a">>, "b",
                      weight)>>,
               <<>>) :
        prior \in {100, 950}, weight \in {900, 500, 0} }

\* the default configuration, and the configurations with a small bound
SingleConfigs ==
    Configs \cup { [max_iterations |-> DEFAULT_MAX_ITERATIONS,
                    convergence_threshold |-> DEFAULT_CONVERGENCE_THRESHOLD,
                    learning_rate |-> DEFAULT_LEARNING_RATE,
                    damping_factor |-> DEFAULT_DAMPING_FACTOR] }

InitSingle ==
    /\ schema \in SingleSchemas
    /\ \E config \in SingleConfigs : engine = NeuroEngine(schema, config)
    /\ pc = "idle"
    /\ frame = NoFrame
    /\ last = NoCall
    /\ ncalls = 0
    /\ db = NoDb
    /\ operands = <<0, 0>>
    /\ tasks = <<>>
    /\ calls = <<>>

\* run, one iteration at a time, on the schemas of one implication
NextSingle ==
    \/ Run
    \/ ForwardStep
    \/ ConstraintStep
    \/ Return

SpecSingle == InitSingle /\ [][NextSingle]_vars

-----------------------------------------------------------------------------
(* The bridge service as a state machine: one call at a time.  engine and  *)
(* schema are the engine and the schema the last inference built.          *)

\* node ids: "a", "b", "node_a", and "x", which no graph stores
IdA == <<"a">>

IdB == <<"b">>

IdNodeA == NodePrefix \o IdA

IdX == <<"x">>

Node(id, prior, truth_value, is_locked) ==
    [id |-> id, prior |-> prior, truth_value |-> truth_value,
     is_locked |-> is_locked]

LogicMeta(type, weight, op, learnable) ==
    [type |-> type, weight |-> weight, op |-> op, learnable |-> learnable]

\* edge ids of nine characters that share their first eight
EdgeId(k) == <<"e", "d", "g", "e", "0", "0", "0", "0">> \o Decimal(k)

Association(k, source_id, target_id, logic_meta) ==
    [id |-> EdgeId(k), source_id |-> source_id, target_id |-> target_id,
     logic_meta |-> logic_meta]

\* The graphs in storage.  A node may be locked at a truth value that is
\* not its prior; an edge may lack logic metadata, lead to a node that is
\* not stored, or be of a kind that has no rule.
Graphs ==
    { Storage(<<Node(IdA, 300, 300, FALSE), Node(IdB, 100, 100, FALSE),
                Node(IdNodeA, 700, 900, TRUE)>>,
              <<Association(1, IdA, IdB,
                            {LogicMeta(IMPLIES, 900, "IDENTITY", TRUE)}),
                Association(2, IdNodeA, IdB,
                            {LogicMeta(ATTACKS, 500, "IDENTITY", TRUE)}),
                Association(3, IdA, IdNodeA,
                            {LogicMeta(DEPENDS, 800, "IDENTITY", FALSE)}),
                Association(4, IdA, IdB, {}),
                Association(5, IdA, IdX,
                            {LogicMeta(IMPLIES, 900, "IDENTITY", TRUE)}),
                Association(6, IdB, IdA,
                            {LogicMeta(MUTEX, 1000, "IDENTITY", TRUE)}),
                Association(7, IdB, IdNodeA,
                            {LogicMeta(IMPLIES, 600, "IDENTITY", TRUE)})>>),
      Storage(<<Node(IdA, 800, 800, TRUE), Node(IdB, 200, 600, FALSE),
                Node(IdNodeA, 500, 500, FALSE)>>,
              <<Association(1, IdA, IdB,
                            {LogicMeta(SUPPORTS, 600, "IDENTITY", TRUE)}),
                Association(2, IdB, IdNodeA,
                            {LogicMeta(IMPLIES, 1000, "AND", TRUE)}),
                Association(3, IdNodeA, IdA,
                            {LogicMeta(ATTACKS, 1000, "IDENTITY", TRUE)}),
                Association(4, IdX, IdB,
                            {LogicMeta(ATTACKS, 1000, "IDENTITY", TRUE)}),
                Association(5, IdB, IdNodeA,
                            {LogicMeta(DEPENDS, 500, "IDENTITY", TRUE)})>>) }

\* a service with no database, or with one of the graphs in storage
InitBridge ==
    /\ db \in {NoDb} \cup Graphs
    /\ schema = Document(<<>>, <<>>, <<>>)
    /\ engine = NeuroEngine(schema, ServiceConfig({}))
    /\ pc = "idle"
    /\ frame = NoFrame
    /\ last = NoCall
    /\ ncalls = 0
    /\ operands = <<0, 0>>
    /\ tasks = <<>>
    /\ calls = <<>>

\* <<center_node_id, depth>>
FetchArgs == {<<IdA, 0>>, <<IdB, 1>>, <<IdX, 2>>}

FetchContext ==
    \E arg \in FetchArgs :
        \E out \in {fetch_context(db, arg[1], arg[2])} :
            /\ pc = "idle"
            /\ ncalls < MaxCalls
            /\ last' = [Call("fetch_context", <<>>, {}, arg[1], arg[2])
                          EXCEPT !.raised = out.raised,
                                 !.error = out.error,
                                 !.context = out.context,
                                 !.db_before = db]
            /\ ncalls' = ncalls + 1
            /\ UNCHANGED <<schema, engine, pc, frame, db, operands, tasks, calls>>

\* the contexts a caller assembles in memory: a neighbourhood of a graph
Contexts ==
    { extract_context(get_neighborhood(g, arg[1], arg[2]).nodes,
                      get_neighborhood(g, arg[1], arg[2]).associations,
                      arg[1]) :
        g \in Graphs, arg \in {<<IdA, 2>>, <<IdB, 0>>} }

\* <<evidence, iterations>>
InferenceArgs == {<<<<>>, {}>>, <<IdA :> 1000, {1}>>,
                  <<IdNodeA :> 200 @@ IdX :> 500, {0}>>}

RunInference ==
    \E context \in Contexts, arg \in InferenceArgs :
        \E out \in {run_inference(context, arg[1], arg[2])} :
            /\ pc = "idle"
            /\ ncalls < MaxCalls
            /\ schema' = out.schema
            /\ engine' = out.engine
            /\ last' = [Call("run_inference", arg[1], arg[2], "", 0)
                          EXCEPT !.raised = out.raised,
                                 !.result = out.result,
                                 !.ran = TRUE,
                                 !.context = context,
                                 !.db_before = db]
            /\ ncalls' = ncalls + 1
            /\ UNCHANGED <<pc, frame, db, operands, tasks, calls>>

QueryNode ==
    \E context \in Contexts, node_id \in {IdB, IdX} :
        \E out \in {query_node(context, node_id, IdA :> 1000)} :
            /\ pc = "idle"
            /\ ncalls < MaxCalls
            /\ schema' = out.schema
            /\ engine' = out.engine
            /\ last' = [Call("query_node", IdA :> 1000, {}, node_id,
                             out.value)
                          EXCEPT !.raised = out.raised,
                                 !.ran = TRUE,
                                 !.context = context,
                                 !.db_before = db]
            /\ ncalls' = ncalls + 1
            /\ UNCHANGED <<pc, frame, db, operands, tasks, calls>>

\* <<center_node_id, depth, evidence, write_back>>
SolveArgs ==
    { <<IdA, 2, <<>>, TRUE>>,
      <<IdA, 1, IdA :> 1000, TRUE>>,
      <<IdB, 2, IdNodeA :> 200 @@ IdX :> 500, TRUE>>,
      <<IdB, 0, <<>>, TRUE>>,
      <<IdA, 2, <<>>, FALSE>>,
      <<IdX, 1, <<>>, TRUE>> }

SolveContext ==
    \E arg \in SolveArgs :
        \E out \in {solve_context(db, arg[1], arg[2], arg[3], arg[4])} :
            /\ pc = "idle"
            /\ ncalls < MaxCalls
            /\ schema' = IF out.ran THEN out.schema ELSE schema
            /\ engine' = IF out.ran THEN out.engine ELSE engine
            /\ db' = out.db
            /\ last' = [Call("solve_context", arg[3], {}, arg[1], arg[2])
                          EXCEPT !.raised = out.raised,
                                 !.error = out.error,
                                 !.result = out.result,
                                 !.ran = out.ran,
                                 !.wrote = out.wrote,
                                 !.updates = out.updates,
                                 !.context =
                                     fetch_context(db, arg[1], arg[2]).context,
                                 !.db_before = db]
            /\ ncalls' = ncalls + 1
            /\ UNCHANGED <<pc, frame, operands, tasks, calls>>

\* tags: "S", "P", "C"
TagS == <<"S">>

TagP == <<"P">>

TagC == <<"C">>

TagX == <<"X">>

TaggedNode(id, prior, tags, prototype_ids) ==
    [id |-> id, prior |-> prior, truth_value |-> prior, is_locked |-> FALSE,
     tags |-> tags, prototype_ids |-> prototype_ids]

\* the subgraphs rules are grounded in: a bears S as a tag and b bears it
\* as a prototype; the second has a node with the id "a_C"
GroundContexts ==
    { extract_context(
          <<TaggedNode(IdA, 900, <<TagS>>, <<>>),
            TaggedNode(IdB, 100, <<>>, <<TagP, TagS>>),
            Node(IdNodeA, 700, 900, TRUE)>>,
          <<Association(1, IdA, IdB,
                        {LogicMeta(IMPLIES, 900, "IDENTITY", TRUE)})>>,
          IdA),
      extract_context(
          <<TaggedNode(IdA, 900, <<TagS, TagP>>, <<TagS>>),
            TaggedNode(IdA \o <<"_">> \o TagC, 200, <<TagP>>, <<>>),
            TaggedNode(IdB, 100, <<>>, <<>>)>>,
          <<Association(1, IdA, IdB,
                        {LogicMeta(IMPLIES, 900, "IDENTITY", TRUE)}),
            Association(2, IdB, IdA, {})>>,
          IdB) }

\* lists of abstract rules: dictionaries with source_type, target_type,
\* logic_type and weight, any of which may be absent
AbstractRuleLists ==
    { <<>>,
      <<[source_type |-> TagS, target_type |-> TagC]>>,
      <<[source_type |-> TagS, target_type |-> TagC,
         logic_type |-> ATTACKS, weight |-> 500],
        [source_type |-> TagP, target_type |-> TagC, weight |-> 800]>>,
      <<[source_type |-> TagS],
        [source_type |-> TagX, target_type |-> TagC] >>,
      <<[source_type |-> TagS, target_type |-> TagC, logic_type |-> ""],
        [source_type |-> TagS, target_type |-> TagC]>> }

\* what gen_id() returns, call after call: ids no edge has
GenIds ==
    { [k \in 1..6 |-> <<"f", "r", "e", "s", "h", "0", "0", "0">>
                          \o Decimal(k)],
      [k \in 1..6 |-> <<Digit(k), "9", "f", "8", "6", "d", "0", "8", "1">>] }

GroundAbstractRules ==
    \E context \in GroundContexts, abstract_rules \in AbstractRuleLists :
        \E ids \in GenIds :
            \E out \in {ground_abstract_rules(context, abstract_rules,
                                              ids)} :
                /\ pc = "idle"
                /\ ncalls < MaxCalls
                /\ last' = [Call("ground_abstract_rules", <<>>, {}, "", 0)
                              EXCEPT !.context = context,
                                     !.data = abstract_rules,
                                     !.result = out,
                                     !.db_before = db]
                /\ ncalls' = ncalls + 1
                /\ UNCHANGED <<schema, engine, pc, frame, db, operands,
                               tasks, calls>>

NextBridge ==
    \/ FetchContext
    \/ RunInference
    \/ QueryNode
    \/ SolveContext
    \/ GroundAbstractRules

SpecBridge == InitBridge /\ [][NextBridge]_vars

-----------------------------------------------------------------------------
(* solve_context step by step: calls in progress on one service, each     *)
(* suspended at its get_neighborhood or its bulk_update_nodes call        *)

\* the coroutines of solve_context on the service
Tasks == {1, 2}

NoTask ==
    [pc |-> "none", center_node_id |-> <<>>, depth |-> 0, evidence |-> <<>>,
     write_back |-> FALSE, context |-> <<>>, results |-> <<>>,
     updates |-> <<>>, raised |-> FALSE, error |-> ""]

\* a call the storage collaborator received: the coroutine that made it,
\* the method, the updates submitted and the neighbourhood returned
StorageCall(task, op, updates, returned) ==
    [task |-> task, op |-> op, updates |-> updates, returned |-> returned]

InitSolve ==
    /\ db \in {NoDb} \cup Graphs
    /\ tasks = [t \in Tasks |-> NoTask]
    /\ calls = <<>>
    /\ schema = Document(<<>>, <<>>, <<>>)
    /\ engine = NeuroEngine(schema, ServiceConfig({}))
    /\ pc = "idle"
    /\ frame = NoFrame
    /\ last = NoCall
    /\ ncalls = 0
    /\ operands = <<0, 0>>

\* solve_context(center_node_id, depth, evidence, write_back) is called
SolveCall(t) ==
    \E arg \in SolveArgs :
        /\ tasks[t].pc = "none"
        /\ tasks' = [tasks EXCEPT ![t] =
                        [NoTask EXCEPT !.pc = "start",
                                       !.center_node_id = arg[1],
                                       !.depth = arg[2],
                                       !.evidence = arg[3],
                                       !.write_back = arg[4]]]
        /\ UNCHANGED <<schema, engine, pc, frame, last, ncalls, db, operands,
                       calls>>

\* lines 290 and 102-106: fetch_context raises without a database, and
\* otherwise get_neighborhood answers and the context is extracted
SolveFetch(t) ==
    /\ tasks[t].pc = "start"
    /\ IF ~db.configured
       THEN /\ tasks' = [tasks EXCEPT ![t].pc = "done",
                                      ![t].raised = TRUE,
                                      ![t].error = "RuntimeError"]
            /\ calls' = calls
       ELSE \E hood \in {get_neighborhood(db, tasks[t].center_node_id,
                                          tasks[t].depth)} :
                /\ tasks' = [tasks EXCEPT
                                ![t].pc = "fetched",
                                ![t].context =
                                    extract_context(
                                        hood.nodes, hood.associations,
                                        tasks[t].center_node_id)]
                /\ calls' = Append(calls,
                                   StorageCall(t, "get_neighborhood", <<>>,
                                               hood))
    /\ UNCHANGED <<schema, engine, pc, frame, last, ncalls, db, operands>>

\* solve_context with the evidence kept on the service: a call infers
\* with the evidence of a call in progress, its own or another's
SolveInfer_SharedEvidence(t) ==
    /\ tasks[t].pc = "fetched"
    /\ \E o \in Tasks :
           /\ tasks[o].pc # "none"
           /\ \E out \in {run_inference(tasks[t].context, tasks[o].evidence,
                                        {})} :
                  IF out.raised
                  THEN tasks' = [tasks EXCEPT ![t].pc = "done",
                                              ![t].raised = TRUE,
                                              ![t].error = "ValueError"]
                  ELSE tasks' = [tasks EXCEPT
                                    ![t].pc =
                                        IF tasks[t].write_back /\ db.configured
                                        THEN "inferred" ELSE "done",
                                    ![t].results = out.result,
                                    ![t].updates =
                                        IF tasks[t].write_back
                                             /\ db.configured
                                        THEN UpdatesFrom(out.schema.variables,
                                                         out.result, 1, <<>>)
                                        ELSE <<>>]
    /\ UNCHANGED <<schema, engine, pc, frame, last, ncalls, db, operands,
                   calls>>

\* solve_context handing the updates to storage whatever write_back is
SolveInfer_IgnoresWriteBack(t) ==
    /\ tasks[t].pc = "fetched"
    /\ \E out \in {run_inference(tasks[t].context, tasks[t].evidence, {})} :
           IF out.raised
           THEN tasks' = [tasks EXCEPT ![t].pc = "done",
                                       ![t].raised = TRUE,
                                       ![t].error = "ValueError"]
           ELSE tasks' = [tasks EXCEPT
                             ![t].pc = "inferred",
                             ![t].results = out.result,
                             ![t].updates =
                                 UpdatesFrom(out.schema.variables,
                                             out.result, 1, <<>>)]
    /\ UNCHANGED <<schema, engine, pc, frame, last, ncalls, db, operands,
                   calls>>

\* lines 293-303 up to the storage call: inference on the context, then
\* either the updates are handed to bulk_update_nodes or results returned
SolveInfer(t) ==
    /\ tasks[t].pc = "fetched"
    /\ \E out \in {run_inference(tasks[t].context, tasks[t].evidence, {})} :
           IF out.raised
           THEN tasks' = [tasks EXCEPT ![t].pc = "done",
                                       ![t].raised = TRUE,
                                       ![t].error = "ValueError"]
           ELSE tasks' = [tasks EXCEPT
                             ![t].pc = IF tasks[t].write_back /\ db.configured
                                       THEN "inferred" ELSE "done",
                             ![t].results = out.result,
                             ![t].updates =
                                 IF tasks[t].write_back /\ db.configured
                                 THEN UpdatesFrom(out.schema.variables,
                                                  out.result, 1, <<>>)
                                 ELSE <<>>]
    /\ UNCHANGED <<schema, engine, pc, frame, last, ncalls, db, operands,
                   calls>>

\* lines 301-303: bulk_update_nodes answers and results is returned
SolveWrite(t) ==
    /\ tasks[t].pc = "inferred"
    /\ db' = bulk_update_nodes(db, tasks[t].updates)
    /\ calls' = Append(calls,
                       StorageCall(t, "bulk_update_nodes", tasks[t].updates,
                                   <<>>))
    /\ tasks' = [tasks EXCEPT ![t].pc = "done"]
    /\ UNCHANGED <<schema, engine, pc, frame, last, ncalls, operands>>

NextSolve ==
    \/ \E t \in Tasks : SolveCall(t)
    \/ \E t \in Tasks : SolveFetch(t)
    \/ \E t \in Tasks : SolveInfer(t)
    \/ \E t \in Tasks : SolveWrite(t)

SpecSolve == InitSolve /\ [][NextSolve]_vars

-----------------------------------------------------------------------------
(* The kernel as a state machine: its operators applied to two operands *)

\* the truth values the operands are drawn from: 0, 1 and values between
TruthValues == {0, 1, 250, 333, 500, 900, 999, 1000}

InitKernel ==
    /\ operands \in TruthValues \X TruthValues
    /\ tasks = <<>>
    /\ calls = <<>>
    /\ schema = Document(<<>>, <<>>, <<>>)
    /\ engine = NeuroEngine(schema, ServiceConfig({}))
    /\ pc = "idle"
    /\ frame = NoFrame
    /\ last = NoCall
    /\ ncalls = 0
    /\ db = NoDb

\* op applied to args gave value
Applied(op, args, value) ==
    /\ ncalls < MaxCalls
    /\ last' = Call(op, args, {}, "", value)
    /\ ncalls' = ncalls + 1
    /\ UNCHANGED <<schema, engine, pc, frame, db, operands, tasks, calls>>

\* fuzzy_and() and fuzzy_and(a, b)
FuzzyAnd ==
    \E args \in {<<>>, operands} :
        Applied("fuzzy_and", args, fuzzy_and(args))

\* fuzzy_or() and fuzzy_or(a, b)
FuzzyOr ==
    \E args \in {<<>>, operands} :
        Applied("fuzzy_or", args, fuzzy_or(args))

Implies == Applied("implies", operands, implies(operands[1], operands[2]))

Equivalent ==
    Applied("equivalent", operands, equivalent(operands[1], operands[2]))

NextKernel ==
    \/ FuzzyAnd
    \/ FuzzyOr
    \/ Implies
    \/ Equivalent

SpecKernel == InitKernel /\ [][NextKernel]_vars

-----------------------------------------------------------------------------
(* What the claims are stated in *)

Declared == Names(schema.variables)

Declaration(n) ==
    schema.variables[CHOOSE i \in DOMAIN schema.variables :
                         schema.variables[i].name = n]

DeclaredPrior(n) == Get(Declaration(n), "prior", HALF)

DeclaredLocked(n) == Get(Declaration(n), "locked", FALSE)

\* the last call was op and it returned (it did not raise)
Returned(op) == last.op = op /\ ~last.raised

InUnitInterval(v) == 0 <= v /\ v <= SCALE

\* some variable's returned value differs from its prior
Propagated == \E n \in DOMAIN last.result : last.result[n] # DeclaredPrior(n)

\* n is the output of a rule of the schema
IsRuleOutput(n) ==
    \E i \in DOMAIN schema.rules :
        "output" \in DOMAIN schema.rules[i] /\ schema.rules[i].output = n

\* n is a target of a constraint of the schema
IsConstraintTarget(n) ==
    \E i \in DOMAIN schema.constraints :
        \E j \in DOMAIN Targets(schema.constraints[i]) :
            Targets(schema.constraints[i])[j] = n

-----------------------------------------------------------------------------
(* C1 *)

\* C1: every value stored by the engine, in every reachable state
\* (construction and reset included), and every value of a map returned by
\* run lies in [0, 1].
C1_ValuesInUnitInterval ==
    /\ \A n \in DOMAIN engine.states : InUnitInterval(engine.states[n].value)
    /\ Returned("run") =>
           \A n \in DOMAIN last.result : InUnitInterval(last.result[n])

-----------------------------------------------------------------------------
(* C2 *)

\* a step of a forward or constraint pass leaves the state of every locked
\* variable as it is
PassKeepsLocked ==
    pc \in {"forward", "constraints"} =>
        \A n \in DOMAIN engine.states :
            engine.states[n].locked => engine'.states[n] = engine.states[n]

\* C2: run(E)[v] is clamp(E[v]) for v in E, and the declared value for a
\* variable declared locked and not in E; no forward pass and no constraint
\* pass changes the state of a locked variable.
C2_LockedKeepValue ==
    /\ [](Returned("run") =>
            \A n \in DOMAIN last.result :
                /\ n \in DOMAIN last.evidence =>
                       last.result[n] = clamp(last.evidence[n])
                /\ n \notin DOMAIN last.evidence /\ DeclaredLocked(n) =>
                       last.result[n] = DeclaredPrior(n))
    /\ [][PassKeepsLocked]_vars

\* a run returned after at least one iteration in which another variable
\* moved, on a schema where a variable declared locked is the output of a
\* rule and where an evidence variable is the target of a constraint or
\* the output of a rule
C2_Witness ==
    /\ Returned("run")
    /\ last.iters >= 1
    /\ Propagated
    /\ \E n \in Declared : DeclaredLocked(n) /\ IsRuleOutput(n)
    /\ \E n \in Declared \cap DOMAIN last.evidence :
           IsRuleOutput(n) \/ IsConstraintTarget(n)

-----------------------------------------------------------------------------
(* C3 *)

\* C3: a run that repeats the arguments of the run that returned just
\* before it returns the same map; the first run of an engine returns the
\* map that the first run of another engine built from the same schema and
\* config returns.
C3_RunDeterministic ==
    /\ Returned("run") /\ last.repeats => last.result = last.before
    /\ Returned("run") /\ ncalls = 1 =>
           last.result = run(NeuroEngine(schema, engine.config),
                             last.evidence, last.iterations).result

\* the second of two equal runs returned, and values had moved
C3_Witness ==
    /\ Returned("run")
    /\ last.repeats
    /\ last.iters >= 1
    /\ Propagated

-----------------------------------------------------------------------------
(* C4 *)

\* C4: whatever calls came before, run(E) returns the map that run(E)
\* returns on a freshly constructed engine, and leaves the locked flags it
\* leaves there: a variable locked by an earlier call is unlocked again
\* unless it is declared locked or is in E.
C4_RunStartsFromDeclaration ==
    Returned("run") =>
        LET fresh == run(NeuroEngine(schema, engine.config),
                         last.evidence, last.iterations)
        IN  /\ last.result = fresh.result
            /\ engine.states = fresh.engine.states
            /\ \A n \in DOMAIN engine.states :
                   engine.states[n].locked =
                       (DeclaredLocked(n) \/ n \in DOMAIN last.evidence)

\* a run returned on an engine that had a variable locked by an earlier
\* call; the run unlocked it and moved it away from its prior
C4_Witness ==
    /\ Returned("run")
    /\ ncalls >= 2
    /\ \E n \in last.locked_before :
           /\ ~DeclaredLocked(n)
           /\ n \notin DOMAIN last.evidence
           /\ ~engine.states[n].locked
           /\ last.result[n] # DeclaredPrior(n)

-----------------------------------------------------------------------------
(* C5 *)

\* C5: an engine constructed from export() returns, for the evidence and
\* iterations of the run that just returned, the map that run returned
\* (and raises where it raised).
C5_ExportRoundTrip ==
    last.op = "run" =>
        LET copy == run(NeuroEngine(export(engine), engine.config),
                        last.evidence, last.iterations)
        IN  /\ copy.raised = last.raised
            /\ ~last.raised => copy.result = last.result

\* a run returned moved values on a schema with rules and constraints
C5_Witness ==
    /\ Returned("run")
    /\ last.iters >= 1
    /\ Propagated
    /\ schema.rules # <<>>
    /\ schema.constraints # <<>>

-----------------------------------------------------------------------------
(* C6 *)

\* C6: run({}) returns the prior of every variable that is not declared
\* locked, is the output of no rule and is the target of no constraint.
C6_UntouchedKeepsPrior ==
    Returned("run") /\ DOMAIN last.evidence = {} =>
        \A n \in Declared :
            ~DeclaredLocked(n) /\ ~IsRuleOutput(n) /\ ~IsConstraintTarget(n)
                => last.result[n] = DeclaredPrior(n)

\* run({}) returned; one variable is untouched by rules and constraints,
\* another one moved
C6_Witness ==
    /\ Returned("run")
    /\ DOMAIN last.evidence = {}
    /\ last.iters >= 1
    /\ Propagated
    /\ \E n \in Declared :
           ~DeclaredLocked(n) /\ ~IsRuleOutput(n) /\ ~IsConstraintTarget(n)

-----------------------------------------------------------------------------
(* C7 *)

\* the integer passed as iterations, 0 for None
IterationsGiven == IF last.iterations = {} THEN 0
                   ELSE CHOOSE k \in last.iterations : TRUE

\* C7 as claimed: a run that no iteration ended by convergence performed
\* max(iterations, config.max_iterations) iterations.
C7_BoundIsTheLarger ==
    Returned("run") /\ ~last.converged =>
        last.iters = Max(IterationsGiven, engine.config.max_iterations)

\* C7 as amended: the bound is iterations when iterations is given and is
\* not 0, and config.max_iterations otherwise; run never performs more
\* iterations than the bound, and performs exactly as many when no
\* iteration's delta is below the convergence threshold.
C7_BoundIsIterationsOrConfig ==
    Returned("run") =>
        LET bound == IF IterationsGiven = 0
                     THEN engine.config.max_iterations
                     ELSE IterationsGiven
        IN  /\ last.iters <= bound
            /\ ~last.converged => last.iters = bound

\* run(E, iterations = 1) returned without convergence after its one
\* iteration on an engine with config.max_iterations = 2
C7_Witness ==
    /\ Returned("run")
    /\ ~last.converged
    /\ last.iterations = {1}
    /\ engine.config.max_iterations = 2
    /\ last.iters = 1

-----------------------------------------------------------------------------
(* C8 *)

RuleTypes == {"IMPLICATION", "CONJUNCTION", "DISJUNCTION", "EQUIVALENCE"}

Operators == {"IDENTITY", "AND", "OR", "NOT", "WEIGHTED"}

\* a rule with an undeclared input, an undeclared output or an unknown type
InertRule(rule) ==
    \/ \E i \in DOMAIN Get(rule, "inputs", <<>>) : rule.inputs[i] \notin Declared
    \/ "output" \notin DOMAIN rule
    \/ rule.output \notin Declared
    \/ Get(rule, "type", "IMPLICATION") \notin RuleTypes

\* The schema without what the claim calls inert: the inert rules, the
\* constraints with an undeclared source, the undeclared targets.
ResolvedSchema ==
    LET live == SelectSeq(schema.constraints,
                          LAMBDA c : Get(c, "source", "") \in Declared)
    IN  [schema EXCEPT
            !.rules = SelectSeq(schema.rules, LAMBDA r : ~InertRule(r)),
            !.constraints =
                [i \in DOMAIN live |->
                    [live[i] EXCEPT
                        !.target = SelectSeq(Targets(live[i]),
                                             LAMBDA t : t \in Declared)]]]

\* the evidence for declared names
ResolvedEvidence ==
    [n \in DOMAIN last.evidence \cap Declared |-> last.evidence[n]]

\* C8: run raises only when an IMPLICATION rule with resolved inputs and a
\* declared output has an unknown operator; when it returns, the map it
\* returns has exactly the declared variables and is the map run returns
\* on the schema without the inert rules, the constraints of undeclared
\* source and the undeclared targets, given the evidence for declared
\* names.
C8_UnresolvedNamesAreInert ==
    /\ last.op = "run" /\ last.raised =>
           \E i \in DOMAIN schema.rules :
               /\ ~InertRule(schema.rules[i])
               /\ Get(schema.rules[i], "type", "IMPLICATION") = "IMPLICATION"
               /\ Upper(Get(schema.rules[i], "op", "IDENTITY")) \notin Operators
    /\ Returned("run") =>
           /\ DOMAIN last.result = Declared
           /\ last.result =
                  run(NeuroEngine(ResolvedSchema, engine.config),
                      ResolvedEvidence, last.iterations).result

\* run returned moved values on a schema with an inert rule or an
\* unresolved constraint, given evidence for an undeclared name
C8_Witness ==
    /\ Returned("run")
    /\ last.iters >= 1
    /\ Propagated
    /\ ResolvedSchema # schema
    /\ ResolvedEvidence # last.evidence
    /\ \E i \in DOMAIN schema.rules :
           \E j \in DOMAIN schema.rules[i].inputs :
               schema.rules[i].inputs[j] \notin Declared

-----------------------------------------------------------------------------
(* C9 *)

\* the rules that contribute to n: its output rules with resolved inputs
\* and a known type
Contributing(n) ==
    SelectSeq(engine.var_to_output_rules[n],
              LAMBDA id : ~InertRule(RuleById(engine, id)))

\* the weights of the rules that contribute to n sum to 0
ZeroWeightOutput(n) ==
    /\ Contributing(n) # <<>>
    /\ SumSeq([i \in DOMAIN Contributing(n) |->
                  Get(RuleById(engine, Contributing(n)[i]), "weight", SCALE)])
           = 0

\* a forward pass leaves every unlocked variable whose contributing
\* weights sum to 0 at its value, and records no delta for it
ForwardKeepsZeroWeight ==
    pc = "forward" /\ pc' = "constraints" =>
        /\ \A n \in DOMAIN engine.states :
               ZeroWeightOutput(n) /\ ~engine.states[n].locked =>
                   engine'.states[n].value = engine.states[n].value
        /\ (\A n \in DOMAIN engine.states :
                engine.var_to_output_rules[n] # <<>> => ZeroWeightOutput(n))
               => frame'.rule_delta = 0

\* C9: when the weights of the rules contributing to an unlocked output
\* variable sum to 0, the forward pass does not change its value and adds
\* nothing to the pass delta.
C9_ZeroWeightNotUpdated == [][ForwardKeepsZeroWeight]_vars

-----------------------------------------------------------------------------
(* C10 *)

\* C10: after any sequence of train and set_rule_weight calls, every rule
\* weight of the engine, hence every weight in export() and every weight
\* get_rule_weight returns, is in [0, 1].
C10_WeightsInUnitInterval ==
    /\ \A i \in DOMAIN export(engine).rules :
           InUnitInterval(Get(export(engine).rules[i], "weight", SCALE))
    /\ last.op = "get_rule_weight" /\ last.returned =>
           InUnitInterval(last.value)
    /\ \A id \in {"r1", "r2"} :
           get_rule_weight(engine, id).found =>
               InUnitInterval(get_rule_weight(engine, id).weight)

\* the engine as it was when the last call began: run starts from the
\* declarations, so only the rules matter
EngineBefore == [engine EXCEPT !.rules = last.rules_before]

\* what the one update of a one-epoch, one-example, one-target training
\* call adds to the weight of rule_id
OnlyDelta(rule_id) ==
    LET example == last.data[1]
        out == run(EngineBefore, example.inputs, {})
        error == example.targets[1][2]
                     - Get(out.result, example.targets[1][1], HALF)
    IN  Quot(error * engine.config.learning_rate
                 * InputStrength(out.engine, RuleById(EngineBefore, rule_id),
                                 example.inputs),
             SCALE * SCALE)

\* a training call of one update whose sum of weight and delta was above 1
\* and was stored as 1
C10_Witness ==
    /\ Returned("train")
    /\ last.iters = 1 /\ last.epochs = 1
    /\ Len(last.data) = 1 /\ Len(last.data[1].targets) = 1
    /\ \E i \in DOMAIN engine.rules :
           /\ engine.rules[i].output = last.data[1].targets[1][1]
           /\ Get(RuleById(EngineBefore, engine.rules[i].id), "weight", SCALE)
                  + OnlyDelta(engine.rules[i].id) > SCALE
           /\ Get(engine.rules[i], "weight", SCALE) = SCALE

-----------------------------------------------------------------------------
(* C11 *)

\* the names that are a target of some example of data
TargetNames(data) ==
    UNION { {data[j].targets[t][1] : t \in DOMAIN data[j].targets} :
              j \in DOMAIN data }

\* rule may be written by a training call on data
Trainable(rule, data) ==
    /\ Get(rule, "learnable", TRUE)
    /\ "output" \in DOMAIN rule
    /\ rule.output \in TargetNames(data)

\* a call of train, whether it returns or raises, leaves the variable
\* declarations and every rule that is not learnable or whose output is no
\* target as they were
TrainKeepsFrame ==
    last'.op = "train" /\ ncalls' = ncalls + 1 =>
        /\ engine'.variables = engine.variables
        /\ schema'.variables = schema.variables
        /\ DOMAIN engine'.rules = DOMAIN engine.rules
        /\ \A i \in DOMAIN engine.rules :
               ~Trainable(engine.rules[i], last'.data) =>
                   engine'.rules[i] = engine.rules[i]

\* C11: train changes only the weights of learnable rules whose output is
\* a target of some example; every other rule and every variable's
\* declared prior and locked flag are after train what they were before.
C11_TrainChangesOnlyTargetWeights == [][TrainKeepsFrame]_vars

\* a training call changed the weight of one rule and had a second rule,
\* not learnable or of another output, to leave alone
C11_Witness ==
    /\ Returned("train")
    /\ last.iters >= 1
    /\ \E i \in DOMAIN engine.rules :
           /\ Trainable(last.rules_before[i], last.data)
           /\ engine.rules[i] # last.rules_before[i]
    /\ \E i \in DOMAIN engine.rules :
           /\ ~Trainable(last.rules_before[i], last.data)
           /\ "output" \in DOMAIN engine.rules[i]
           /\ \/ engine.rules[i].output \in TargetNames(last.data)
              \/ Len(engine.rules) = 2

-----------------------------------------------------------------------------
(* C12 *)

\* the weight of the first rule of eng, 1.0 when it has none
FirstWeight(eng) == Get(eng.rules[1], "weight", SCALE)

\* The last call was train(data, epochs) with epochs >= 1 and data one
\* example, evidence 1.0 for one input and one target t, on a schema of
\* one learnable IDENTITY implication from that input to the target and no
\* constraint, and t is above the value run produces for the target by
\* enough for the first update to be one unit of weight at least.
SingleRuleTraining ==
    /\ Returned("train")
    /\ last.epochs >= 1
    /\ Len(last.data) = 1
    /\ Len(last.data[1].targets) = 1
    /\ schema.constraints = <<>>
    /\ Len(last.rules_before) = 1
    /\ LET rule == last.rules_before[1]
           example == last.data[1]
           target == example.targets[1]
       IN  /\ "weight" \in DOMAIN rule
           /\ Get(rule, "learnable", TRUE)
           /\ Get(rule, "type", "IMPLICATION") = "IMPLICATION"
           /\ Upper(Get(rule, "op", "IDENTITY")) = "IDENTITY"
           /\ Len(rule.inputs) = 1
           /\ rule.inputs[1] \in Declared
           /\ rule.output \in Declared
           /\ rule.output = target[1]
           /\ DOMAIN example.inputs = {rule.inputs[1]}
           /\ example.inputs[rule.inputs[1]] = SCALE
           /\ (target[2] - run(EngineBefore, example.inputs, {})
                               .result[rule.output])
                  * engine.config.learning_rate >= SCALE

\* the weight after k epochs of the last training call is at most the
\* weight after k + 1
NoEpochDecreases ==
    \A k \in 0..(last.epochs - 1) :
        FirstWeight(train(EngineBefore, last.data, k).engine)
            <= FirstWeight(train(EngineBefore, last.data, k + 1).engine)

-----------------------------------------------------------------------------
(* C13: the bridge's name mapping *)

\* the last call ran an inference over a context and returned its map
InferenceReturned ==
    /\ last.op \in {"run_inference", "solve_context"}
    /\ last.ran
    /\ ~last.raised

\* the node ids of the context of the last call
ContextIds == {last.context.nodes[i].id : i \in DOMAIN last.context.nodes}

\* C13: distinct node ids give distinct variable names, the inverse mapping
\* undoes the mapping, and the map run_inference returns has exactly the
\* node ids of the subgraph as keys, each with the value the engine holds
\* for the variable of that node.
C13_NameMappingInvertible ==
    InferenceReturned =>
        /\ \A i, j \in DOMAIN last.context.nodes :
               last.context.nodes[i].id # last.context.nodes[j].id
                   => _node_to_var_name(last.context.nodes[i])
                        # _node_to_var_name(last.context.nodes[j])
        /\ \A i \in DOMAIN last.context.nodes :
               _var_name_to_node_id(_node_to_var_name(last.context.nodes[i]))
                   = last.context.nodes[i].id
        /\ DOMAIN last.result = ContextIds
        /\ \A i \in DOMAIN last.context.nodes :
               last.result[last.context.nodes[i].id]
                   = engine.states[_node_to_var_name(last.context.nodes[i])]
                         .value

\* run_inference returned over a subgraph that holds both the node "a" and
\* the node "node_a", and inference moved some value off its prior
C13_Witness ==
    /\ Returned("run_inference")
    /\ {IdA, IdNodeA} \subseteq ContextIds
    /\ \E i \in DOMAIN last.context.nodes :
           last.result[last.context.nodes[i].id]
               # last.context.nodes[i].prior

-----------------------------------------------------------------------------
(* C14: the schema of a subgraph *)

\* the edge has logic metadata of one of the kinds and both its endpoints
\* are nodes of the context of the last call
EdgeOfKind(assoc, kinds) ==
    /\ assoc.logic_meta # {}
    /\ \A meta \in assoc.logic_meta : meta.type \in kinds
    /\ assoc.source_id \in ContextIds
    /\ assoc.target_id \in ContextIds

\* the edges of the context that are of one of the kinds, in their order
EdgesOfKind(kinds) ==
    SelectSeq(last.context.associations, LAMBDA a : EdgeOfKind(a, kinds))

\* the rule is the IMPLICATION rule of the edge
RuleOfEdge(rule, assoc) ==
    \A meta \in assoc.logic_meta :
        /\ rule.type = "IMPLICATION"
        /\ rule.inputs = <<NodePrefix \o assoc.source_id>>
        /\ rule.output = NodePrefix \o assoc.target_id
        /\ rule.weight = IF meta.type = DEPENDS THEN Quot(meta.weight, 2)
                         ELSE meta.weight

\* the constraint is the ATTACK or SUPPORT constraint of the edge
ConstraintOfEdge(constraint, assoc) ==
    \A meta \in assoc.logic_meta :
        /\ constraint.type = (IF meta.type = ATTACKS THEN "ATTACK"
                              ELSE "SUPPORT")
        /\ constraint.source = NodePrefix \o assoc.source_id
        /\ constraint.target = <<NodePrefix \o assoc.target_id>>
        /\ constraint.weight = meta.weight

\* C14: the schema built for a subgraph has one variable per node, one
\* IMPLICATION rule per IMPLIES or DEPENDS edge and one ATTACK or SUPPORT
\* constraint per ATTACKS or SUPPORTS edge between nodes of the subgraph and
\* nothing for any other edge, a DEPENDS rule has half the edge's weight,
\* and no two rules and no two constraints have the same id.
C14_SchemaOfSubgraph ==
    last.ran =>
        /\ Len(schema.variables) = Len(last.context.nodes)
        /\ \A i \in DOMAIN last.context.nodes :
               schema.variables[i].name
                   = NodePrefix \o last.context.nodes[i].id
        /\ Len(schema.rules) = Len(EdgesOfKind({IMPLIES, DEPENDS}))
        /\ \A k \in DOMAIN schema.rules :
               RuleOfEdge(schema.rules[k], EdgesOfKind({IMPLIES, DEPENDS})[k])
        /\ Len(schema.constraints) = Len(EdgesOfKind({ATTACKS, SUPPORTS}))
        /\ \A k \in DOMAIN schema.constraints :
               ConstraintOfEdge(schema.constraints[k],
                                EdgesOfKind({ATTACKS, SUPPORTS})[k])
        /\ \A j, k \in DOMAIN schema.rules :
               j # k => schema.rules[j].id # schema.rules[k].id
        /\ \A j, k \in DOMAIN schema.constraints :
               j # k => schema.constraints[j].id # schema.constraints[k].id

\* a schema was built for a subgraph with two rule edges, one of them a
\* DEPENDS edge, a constraint edge, an edge without logic metadata and an
\* edge to a node outside the subgraph
C14_Witness ==
    /\ last.ran
    /\ Len(EdgesOfKind({IMPLIES, DEPENDS})) >= 2
    /\ EdgesOfKind({DEPENDS}) # <<>>
    /\ EdgesOfKind({ATTACKS, SUPPORTS}) # <<>>
    /\ \E i \in DOMAIN last.context.associations :
           last.context.associations[i].logic_meta = {}
    /\ \E i \in DOMAIN last.context.associations :
           last.context.associations[i].target_id \notin ContextIds

-----------------------------------------------------------------------------
(* C15: a service without storage *)

\* the step is a call of fetch_context or solve_context on a service that
\* has no database
StorageCallWithoutDb ==
    /\ ~db.configured
    /\ ncalls' = ncalls + 1
    /\ last'.op \in {"fetch_context", "solve_context"}

\* C15: fetch_context and solve_context on a service without a storage
\* collaborator raise the configuration error, and they do so before any
\* inference is run and without any write-back.
C15_NoStorageRaises ==
    [][StorageCallWithoutDb =>
           /\ last'.raised
           /\ last'.error = "RuntimeError"
           /\ ~last'.ran
           /\ ~last'.wrote
           /\ UNCHANGED <<db, schema, engine>>]_vars

\* solve_context with write_back was called on a service without a database
\* that had run an inference before
C15_Witness ==
    /\ last.op = "solve_context"
    /\ ~last.db_before.configured
    /\ last.raised
    /\ schema.variables # <<>>

-----------------------------------------------------------------------------
(* C16: locked nodes and the write-back *)

\* C16: solve_context with write_back submits to bulk_update_nodes, for a
\* locked node of the fetched subgraph for which the caller gave no
\* evidence, no truth value other than the node's stored truth_value.
C16_LockedNodeNotOverwritten ==
    (last.op = "solve_context" /\ last.wrote) =>
        \A i \in DOMAIN last.context.nodes :
            (/\ last.context.nodes[i].is_locked
             /\ last.context.nodes[i].id \notin DOMAIN last.evidence)
                => \A u \in DOMAIN last.updates :
                       last.updates[u].id = last.context.nodes[i].id
                           => last.updates[u].truth_value
                                = last.context.nodes[i].truth_value

-----------------------------------------------------------------------------
(* C17: the state setters *)

\* the step is a call of op
CallOf(op) == ncalls' = ncalls + 1 /\ last'.op = op

\* the step is a set_value on a variable that is locked or not declared
SetValueRefused ==
    /\ CallOf("set_value")
    /\ \/ last'.variable \notin DOMAIN engine.states
       \/ engine.states[last'.variable].locked

\* the step is a set_rule_weight on a rule id the engine does not have
SetRuleWeightRefused ==
    /\ CallOf("set_rule_weight")
    /\ \A i \in DOMAIN engine.rules : engine.rules[i].id # last'.variable

\* the step is a lock_variable on a declared variable
LockDeclared ==
    /\ CallOf("lock_variable")
    /\ last'.variable \in DOMAIN engine.states

\* C17: set_value on a locked or undeclared variable returns false and
\* leaves every value and locked flag as it was; set_rule_weight on an
\* unknown rule id returns false and changes no weight; lock_variable on a
\* declared variable returns true and sets its value to the clamped argument
\* and its locked flag, whether or not it was locked before, and leaves the
\* other variables as they were.
C17_SettersRefuseOrAct ==
    [][/\ SetValueRefused =>
              ~last'.returned /\ engine'.states = engine.states
       /\ SetRuleWeightRefused =>
              /\ ~last'.returned
              /\ engine'.rules = engine.rules
              /\ schema' = schema
       /\ LockDeclared =>
              /\ last'.returned
              /\ engine'.states =
                     [engine.states EXCEPT ![last'.variable] =
                         [value |-> clamp(last'.value), locked |-> TRUE]]
      ]_vars

\* the first call locked, at a value above 1, a variable that the schema
\* declares locked: it is locked at 1 now
C17_Witness ==
    /\ last.op = "lock_variable"
    /\ ncalls = 1
    /\ \E i \in DOMAIN schema.variables :
           /\ schema.variables[i].name = last.variable
           /\ Get(schema.variables[i], "locked", FALSE)
           /\ Get(schema.variables[i], "prior", HALF) # SCALE
    /\ last.value > SCALE
    /\ engine.states[last.variable] = [value |-> SCALE, locked |-> TRUE]

-----------------------------------------------------------------------------
(* C18: a single implication a -> b *)

\* the weight of the one rule
SingleWeight == Get(schema.rules[1], "weight", SCALE)

\* x * w for the value x that a holds during the run
SingleTarget == Mul(engine.states["a"].value, SingleWeight)

\* v lies between the bounds, whichever of them is the smaller
Between(v, one, other) == Min(one, other) <= v /\ v <= Max(one, other)

\* the step is a forward pass of an iteration of a run in which b is free
ForwardOfFreeB ==
    /\ pc = "forward"
    /\ pc' = "constraints"
    /\ ~engine.states["b"].locked

\* a run returned in which b was free
ReturnedFreeB ==
    /\ Returned("run")
    /\ "b" \notin DOMAIN last.evidence

\* the value returned for b is within convergence_threshold of x * w
WithinThreshold ==
    Abs(last.result["b"] - SingleTarget)
        <= engine.config.convergence_threshold

\* C18 as stated: in every iteration b moves from its value toward x * w,
\* never past it and never away from it, and run returns b within
\* convergence_threshold of x * w.
C18_SingleImplication ==
    /\ [][ForwardOfFreeB =>
              Between(engine'.states["b"].value,
                      engine.states["b"].value, SingleTarget)]_vars
    /\ [](ReturnedFreeB => WithinThreshold)

\* C18, amended: for a weight above 0, in every iteration b moves from its
\* value toward x * w, never past it and never away from it, and a run that
\* ended because it converged returns b within convergence_threshold of
\* x * w.
C18_SingleImplicationConverged ==
    /\ [][(ForwardOfFreeB /\ SingleWeight > 0) =>
              Between(engine'.states["b"].value,
                      engine.states["b"].value, SingleTarget)]_vars
    /\ []((ReturnedFreeB /\ SingleWeight > 0 /\ last.converged)
              => WithinThreshold)

\* the instance of the specification: a = 1.0 as evidence, weight 0.9 and
\* prior(b) = 0.1 under the default configuration; the run converged after
\* more than five iterations with a = 1.0 and b above 0.5, next to 0.9
C18_Witness ==
    /\ ReturnedFreeB
    /\ last.evidence = [a |-> 1000]
    /\ SingleWeight = 900
    /\ DeclaredPrior("b") = 100
    /\ engine.config.max_iterations = DEFAULT_MAX_ITERATIONS
    /\ last.converged
    /\ last.iters > 5
    /\ last.result["a"] = SCALE
    /\ last.result["b"] > HALF
    /\ WithinThreshold

-----------------------------------------------------------------------------
(* C19: constraints push one way *)

\* the names that are the output of some rule of the schema
RuleOutputs ==
    {Get(schema.rules[i], "output", "") : i \in DOMAIN schema.rules}

\* the names that are a target of some constraint of one of the types
TargetsOfType(types) ==
    UNION { {Targets(schema.constraints[i])[t] :
                t \in DOMAIN Targets(schema.constraints[i])} :
              i \in {j \in DOMAIN schema.constraints :
                        Get(schema.constraints[j], "type", "") \in types} }

\* every value the engine holds is in [0, 1]
ValuesInRange ==
    \A n \in DOMAIN engine.states : InUnitInterval(engine.states[n].value)

\* From the values the engine holds, when they and the weight are in
\* [0, 1]: applying an ATTACK constraint raises no value and applying a
\* SUPPORT constraint lowers none.
OneWaySteps ==
    \A i \in DOMAIN engine.constraints :
        LET constraint == engine.constraints[i]
            c_type == Get(constraint, "type", "")
        IN  (ValuesInRange /\ InUnitInterval(Get(constraint, "weight", SCALE)))
                => /\ c_type = "ATTACK" =>
                          \A n \in DOMAIN engine.states :
                              _apply_attack(engine, constraint)
                                  .engine.states[n].value
                                    <= engine.states[n].value
                   /\ c_type = "SUPPORT" =>
                          \A n \in DOMAIN engine.states :
                              _apply_support(engine, constraint)
                                  .engine.states[n].value
                                    >= engine.states[n].value

\* n is declared unlocked with a positive prior, is the output of no rule,
\* and is a target of an ATTACK constraint of positive weight whose source
\* is declared with a positive prior
Attacked(n) ==
    /\ ~DeclaredLocked(n)
    /\ DeclaredPrior(n) > 0
    /\ n \notin RuleOutputs
    /\ \E i \in DOMAIN schema.constraints :
           LET constraint == schema.constraints[i]
               source == Get(constraint, "source", "")
           IN  /\ Get(constraint, "type", "") = "ATTACK"
               /\ \E t \in DOMAIN Targets(constraint) :
                      Targets(constraint)[t] = n
               /\ Get(constraint, "weight", SCALE) > 0
               /\ source \in DOMAIN engine.states
               /\ DeclaredPrior(source) > 0

\* n is attacked as above by a source that no rule and no constraint
\* writes to, and n is a target of no SUPPORT constraint
AttackedOnly(n) ==
    /\ ~DeclaredLocked(n)
    /\ DeclaredPrior(n) > 0
    /\ n \notin RuleOutputs
    /\ n \notin TargetsOfType({"SUPPORT"})
    /\ \E i \in DOMAIN schema.constraints :
           LET constraint == schema.constraints[i]
               source == Get(constraint, "source", "")
           IN  /\ Get(constraint, "type", "") = "ATTACK"
               /\ \E t \in DOMAIN Targets(constraint) :
                      Targets(constraint)[t] = n
               /\ Get(constraint, "weight", SCALE) > 0
               /\ source \in DOMAIN engine.states
               /\ DeclaredPrior(source) > 0
               /\ source \notin RuleOutputs
               /\ source \notin TargetsOfType({"ATTACK", "SUPPORT"})

\* C19 as stated: constraint steps push one way, and run({}) returns every
\* attacked target strictly below its prior.
C19_ConstraintsOneWay ==
    /\ OneWaySteps
    /\ (Returned("run") /\ last.evidence = <<>>) =>
           \A n \in DOMAIN engine.states :
               Attacked(n) => last.result[n] < DeclaredPrior(n)

\* C19, amended: constraint steps push one way, and run({}) returns strictly
\* below its prior every attacked target that no SUPPORT constraint targets
\* and whose attacker is written to by no rule and no constraint.
C19_ConstraintsOneWayUnsupported ==
    /\ OneWaySteps
    /\ (Returned("run") /\ last.evidence = <<>>) =>
           \A n \in DOMAIN engine.states :
               AttackedOnly(n) => last.result[n] < DeclaredPrior(n)

\* run({}) returned on a schema in which a, at 0.3, attacks c, at 0.7, and
\* nothing supports c: c is returned below 0.7
C19_Witness ==
    /\ Returned("run")
    /\ last.evidence = <<>>
    /\ AttackedOnly("c")
    /\ DeclaredPrior("c") = 700
    /\ last.result["c"] < 700
    /\ last.result["c"] > 0

-----------------------------------------------------------------------------
(* C20: the laws of the kernel *)

\* the operator last applied is op, to the two operands
AppliedToOperands(op) == last.op = op /\ last.evidence = operands

\* C20: fuzzy_and(a, 1) = a and fuzzy_and(a, 0) = 0, fuzzy_or(a, 0) = a and
\* fuzzy_or(a, 1) = 1, implies(0, b) = 1, implies(1, b) = b and
\* implies(a, 1) = 1, equivalent(a, a) = 1, the empty conjunction is 1 and
\* the empty disjunction is 0.
C20_KernelLaws ==
    LET a == operands[1]
        b == operands[2]
    IN  /\ (AppliedToOperands("fuzzy_and") /\ b = SCALE) => last.value = a
        /\ (AppliedToOperands("fuzzy_and") /\ b = 0) => last.value = 0
        /\ (AppliedToOperands("fuzzy_or") /\ b = 0) => last.value = a
        /\ (AppliedToOperands("fuzzy_or") /\ b = SCALE) => last.value = SCALE
        /\ (AppliedToOperands("implies") /\ a = 0) => last.value = SCALE
        /\ (AppliedToOperands("implies") /\ a = SCALE) => last.value = b
        /\ (AppliedToOperands("implies") /\ b = SCALE) => last.value = SCALE
        /\ (AppliedToOperands("equivalent") /\ a = b) => last.value = SCALE
        /\ (last.op = "fuzzy_and" /\ last.evidence = <<>>)
               => last.value = SCALE
        /\ (last.op = "fuzzy_or" /\ last.evidence = <<>>) => last.value = 0

\* implies was applied to 1 and a value strictly between 0 and 1
C20_Witness ==
    /\ AppliedToOperands("implies")
    /\ operands[1] = SCALE
    /\ 0 < operands[2]
    /\ operands[2] < SCALE
    /\ last.value = operands[2]

-----------------------------------------------------------------------------
(* C21: where the loop of run stops *)

\* the step is the constraint pass that ends an iteration
EndOfIteration == pc = "constraints" /\ pc' # "constraints"

\* the delta of the iteration that the step ends: the larger of the delta
\* of its forward pass and the delta of its constraint pass
IterationDelta == Max(frame.rule_delta, _apply_constraints(engine).delta)

\* C21: the loop of run is left at the end of an iteration exactly when the
\* larger of the iteration's forward delta and constraint delta is strictly
\* below convergence_threshold (a delta equal to the threshold continues
\* the loop), and once it is left no pass changes the engine: the call
\* returns.
C21_StopsAtFirstConvergedIteration ==
    /\ [][EndOfIteration =>
              /\ frame'.total_delta = IterationDelta
              /\ (pc' = "break") <=>
                     (IterationDelta < engine.config.convergence_threshold)
              /\ (pc' = "forward") <=>
                     (IterationDelta >= engine.config.convergence_threshold)
          ]_vars
    /\ [][pc = "break" => (pc' = "idle" /\ engine' = engine)]_vars

\* a first iteration ended with a delta equal to the threshold of 0.105
\* and the loop went on: the forward pass of a second iteration has run
C21_Witness ==
    /\ pc = "constraints"
    /\ frame.op = "run"
    /\ frame.iter = 1
    /\ frame.total_delta = engine.config.convergence_threshold
    /\ frame.total_delta > DEFAULT_CONVERGENCE_THRESHOLD

-----------------------------------------------------------------------------
(* C22: updates in place and in schema order *)

\* the engine as the i-th variable of the schema finds it in the forward
\* pass that the step performs: the variables before it hold the values the
\* pass leaves, the others the values the pass began with
SeenByVariable(i) ==
    [engine EXCEPT !.states =
        [n \in DOMAIN engine.states |->
            IF \E k \in 1..(i - 1) : engine.variables[k].name = n
            THEN engine'.states[n] ELSE engine.states[n]]]

\* the engine after the first i constraints, applied one after the other
\* to what the forward pass left
RECURSIVE AfterConstraints(_)
AfterConstraints(i) ==
    IF i = 0 THEN engine
    ELSE ApplyConstraint(AfterConstraints(i - 1), engine.constraints[i]).engine

\* C22: the forward pass of an iteration leaves every variable at the value
\* its rules give on the values current when it is visited in schema order,
\* those already updated in the pass included; the constraint pass follows
\* the whole forward pass and applies the constraints in insertion order,
\* each to the values the forward pass and the constraints before it wrote.
C22_InPlaceInOrder ==
    /\ [][(pc = "forward" /\ pc' = "constraints") =>
              \A i \in DOMAIN engine.variables :
                  engine'.states[engine.variables[i].name]
                      = ForwardVariable(SeenByVariable(i),
                                        engine.variables[i].name)
                            .engine.states[engine.variables[i].name]]_vars
    /\ [][pc = "constraints" =>
              /\ pc' \in {"forward", "break"}
              /\ engine' = AfterConstraints(Len(engine.constraints))]_vars
    /\ [][pc' = "constraints" => pc = "forward"]_vars

\* the first forward pass of a run on the rules a -> b, b -> c has run: b
\* has left its prior, and c is not where the rules would put it from the
\* values the pass began with
C22_Witness ==
    /\ pc = "constraints"
    /\ frame.iter = 0
    /\ frame.op = "run"
    /\ Len(schema.rules) = 2
    /\ schema.rules[2].inputs = <<"b">>
    /\ schema.rules[2].output = "c"
    /\ engine.states["b"].value # DeclaredPrior("b")
    /\ engine.states["c"].value
           # ForwardVariable(
                 LockEvidence(_reset_to_priors(engine), frame.evidence),
                 "c").engine.states["c"].value

-----------------------------------------------------------------------------
(* C23: an EQUIVALENCE rule without inputs *)

\* the rule is an EQUIVALENCE rule with an empty input list
EmptyEquivalence(rule) ==
    /\ Get(rule, "type", "IMPLICATION") = "EQUIVALENCE"
    /\ Get(rule, "inputs", <<>>) = <<>>

\* the engine eng with the EQUIVALENCE rules without inputs taken out of
\* the index of output rules
WithoutEmptyEquivalences(eng) ==
    [eng EXCEPT !.var_to_output_rules =
        [n \in DOMAIN eng.var_to_output_rules |->
            SelectSeq(eng.var_to_output_rules[n],
                      LAMBDA id : ~EmptyEquivalence(RuleById(eng, id)))]]

\* C23: an EQUIVALENCE rule with an empty input list contributes nothing:
\* the forward pass leaves every variable where it would leave it without
\* such rules, so that a variable with no other output rule keeps its value
\* and the combination for an output with other rules has neither the value
\* nor the weight of such a rule.
C23_EmptyEquivalenceContributesNothing ==
    [][(pc = "forward" /\ pc' = "constraints") =>
           \A i \in DOMAIN engine.variables :
               engine'.states[engine.variables[i].name]
                   = ForwardVariable(
                         WithoutEmptyEquivalences(SeenByVariable(i)),
                         engine.variables[i].name)
                         .engine.states[engine.variables[i].name]]_vars

-----------------------------------------------------------------------------
(* C24: an unknown operator name on an IMPLICATION rule *)

\* the rule is an IMPLICATION rule whose operator is none of IDENTITY, AND,
\* OR, NOT, WEIGHTED
UnknownOperator(rule) ==
    /\ Get(rule, "type", "IMPLICATION") = "IMPLICATION"
    /\ Upper(Get(rule, "op", "IDENTITY")) \notin Operators

\* C24: an unknown operator name is ignored: a run on a schema with an
\* IMPLICATION rule of an unknown operator ends without raising, with a
\* value for every declared variable.
C24_UnknownOperatorIgnored ==
    (/\ last.op = "run"
     /\ \E i \in DOMAIN schema.rules : UnknownOperator(schema.rules[i]))
        => /\ ~last.raised
           /\ DOMAIN last.result = Declared

-----------------------------------------------------------------------------
(* C25: the order of the steps of solve_context *)

\* the positions in the storage log of the calls of op made by coroutine t
CallsOf(t, op) ==
    {i \in DOMAIN calls : calls[i].task = t /\ calls[i].op = op}

\* coroutine t has run its inference and holds the result map
Inferred(t) == tasks[t].pc \in {"inferred", "done"} /\ ~tasks[t].raised

\* coroutine t has returned its result map
Solved(t) == tasks[t].pc = "done" /\ ~tasks[t].raised

\* the node ids of the neighbourhood that storage returned to coroutine t
FetchedIds(t) ==
    LET hood == calls[CHOOSE i \in CallsOf(t, "get_neighborhood") : TRUE]
                    .returned
    IN  {hood.nodes[i].id : i \in DOMAIN hood.nodes}

\* C25: solve_context fetches, infers, then writes back.  A call that has
\* run inference has called get_neighborhood exactly once, and no call has
\* called it more than once; bulk_update_nodes is called only by a call
\* that has returned, after its get_neighborhood call, exactly once when
\* write_back is true and never when it is false; the updates are one
\* {id, truth_value} entry per node of the fetched neighbourhood, with the
\* values of the returned map; and the step that calls bulk_update_nodes is
\* taken by a call whose inference is done.
C25_FetchInferWriteBack ==
    /\ [](\A t \in Tasks :
            /\ Cardinality(CallsOf(t, "get_neighborhood")) <= 1
            /\ Inferred(t) => Cardinality(CallsOf(t, "get_neighborhood")) = 1
            /\ Cardinality(CallsOf(t, "bulk_update_nodes"))
                   = IF Solved(t) /\ tasks[t].write_back THEN 1 ELSE 0
            /\ Inferred(t) => DOMAIN tasks[t].results = FetchedIds(t)
            /\ \A w \in CallsOf(t, "bulk_update_nodes") :
                   /\ \A g \in CallsOf(t, "get_neighborhood") : g < w
                   /\ Len(calls[w].updates) = Cardinality(FetchedIds(t))
                   /\ {calls[w].updates[u].id : u \in DOMAIN calls[w].updates}
                          = FetchedIds(t)
                   /\ \A u \in DOMAIN calls[w].updates :
                          calls[w].updates[u].truth_value
                              = tasks[t].results[calls[w].updates[u].id])
    /\ [][\A t \in Tasks :
            CallsOf(t, "bulk_update_nodes")' # CallsOf(t, "bulk_update_nodes")
                => /\ Inferred(t)
                   /\ tasks'[t].results = tasks[t].results
                   /\ Solved(t)']_vars

\* one call has written back the values of at least two nodes and returned,
\* and the other has returned without write_back
C25_Witness ==
    \E t, o \in Tasks :
        /\ Solved(t) /\ tasks[t].write_back
        /\ \E w \in CallsOf(t, "bulk_update_nodes") :
               Len(calls[w].updates) >= 2
        /\ Solved(o) /\ ~tasks[o].write_back
        /\ Cardinality(DOMAIN tasks[o].results) >= 2

-----------------------------------------------------------------------------
(* C26: the epochs of train *)

\* the outcome of the k-th epoch of the last train call when no earlier
\* epoch stops the loop: the engine after it, the sum of squared errors,
\* and whether a run raised
RECURSIVE EpochOfLast(_)
EpochOfLast(k) ==
    IF k = 0 THEN [engine |-> EngineBefore, loss |-> 0, raised |-> FALSE]
    ELSE Only({ ExamplesFrom(before.engine, last.data, 1, 0) :
                  before \in {EpochOfLast(k - 1)} })

\* the mean squared error over the examples in the k-th epoch
MeanSquaredError(k) == Quot(EpochOfLast(k).loss, Max(Len(last.data), 1))

\* C26: train runs at most the epochs asked for, stops after the first
\* epoch whose mean squared error is below 0.001 and after no epoch before
\* it, leaves the engine as the epochs it ran left it, and returns the mean
\* squared error of the last epoch it ran; for an empty example list or
\* epochs = 0 it returns 0 and changes no weight.
C26_TrainReportsLastEpoch ==
    Returned("train") =>
        /\ last.iters <= last.epochs
        /\ \A k \in 1..(last.iters - 1) :
               MeanSquaredError(k) >= LOSS_THRESHOLD
        /\ last.iters < last.epochs =>
               MeanSquaredError(last.iters) < LOSS_THRESHOLD
        /\ last.iters > 0 => last.value = MeanSquaredError(last.iters)
        /\ engine.rules = EpochOfLast(last.iters).engine.rules
        /\ (last.data = <<>> \/ last.epochs = 0) =>
               /\ last.value = 0
               /\ engine.rules = last.rules_before

\* a train call asked for two epochs has stopped after the first, on a
\* mean squared error that is below 0.001 and is not 0
C26_Witness ==
    /\ Returned("train")
    /\ last.epochs = 2
    /\ last.iters = 1
    /\ last.data # <<>>
    /\ last.value > 0
    /\ last.value < LOSS_THRESHOLD

-----------------------------------------------------------------------------
(* C27: MUTEX constraints *)

\* the schema without its MUTEX constraints
WithoutMutex ==
    [schema EXCEPT !.constraints =
        SelectSeq(schema.constraints,
                  LAMBDA c : Get(c, "type", "") # "MUTEX")]

\* the values in the returned map of the declared targets of the schema's
\* first constraint
TargetValues ==
    LET names == SelectSeq(schema.constraints[1].target,
                           LAMBDA n : n \in Declared)
    IN  [i \in DOMAIN names |-> last.result[names[i]]]

\* C27: a MUTEX constraint does nothing: run returns the map it returns on
\* the schema without its MUTEX constraints.
C27_MutexIsNoOp ==
    Returned("run") =>
        last.result = run(NeuroEngine(WithoutMutex, engine.config),
                          last.evidence, last.iterations).result

\* a run on a schema with a MUTEX constraint over b and c has returned
\* values for b and c, neither locked, that sum to more than 1
C27_Witness ==
    /\ Returned("run")
    /\ Len(schema.constraints) = 1
    /\ schema.constraints[1].type = "MUTEX"
    /\ schema.constraints[1].target = <<"b", "c">>
    /\ ~engine.states["b"].locked
    /\ ~engine.states["c"].locked
    /\ SumSeq(TargetValues) > SCALE

-----------------------------------------------------------------------------
(* C28: the schema document under training *)

\* the step is a train or set_rule_weight call on the engine
WeightCall ==
    /\ ncalls' = ncalls + 1
    /\ last'.op \in {"train", "set_rule_weight"}

\* C28: the schema is an immutable input: train and set_rule_weight leave
\* the rules of the document the engine was built from as they were, so
\* that an engine built from the document before the call and one built
\* from it after the call have the same weights.
C28_SchemaIsImmutable ==
    [][WeightCall =>
           /\ schema'.rules = schema.rules
           /\ NeuroEngine(schema', engine.config).rules
                  = NeuroEngine(schema, engine.config).rules]_vars

-----------------------------------------------------------------------------
(* C29: grounding *)

\* the last call grounded abstract rules in a subgraph
Grounded == last.op = "ground_abstract_rules" /\ ~last.raised

\* the positions in the returned edge map of the edges the call added
NewEdges ==
    (Len(last.context.associations) + 1)..Len(last.result.associations)

\* the pairs of an abstract rule, one with a source and a target tag, and a
\* node of the subgraph that bears the rule's source tag
GroundingPairs ==
    {p \in (DOMAIN last.data) \X (DOMAIN last.context.nodes) :
        /\ Get(last.data[p[1]], "source_type", <<>>) # <<>>
        /\ Get(last.data[p[1]], "target_type", <<>>) # <<>>
        /\ BearsTag(last.context.nodes[p[2]], last.data[p[1]].source_type)}

\* the edge is the grounding of the rule of pair p at the node of pair p
EdgeOfPair(edge, p) ==
    /\ edge.source_id = last.context.nodes[p[2]].id
    /\ edge.target_id = last.context.nodes[p[2]].id \o <<"_">>
                            \o last.data[p[1]].target_type
    /\ edge.logic_meta
           = IF Get(last.data[p[1]], "logic_type", IMPLIES) = "" THEN {}
             ELSE {LogicMeta(Get(last.data[p[1]], "logic_type", IMPLIES),
                             Get(last.data[p[1]], "weight", SCALE),
                             "IDENTITY", TRUE)}

\* no node of the subgraph has the id an added edge leads to
NoDerivedNode ==
    \A j \in NewEdges :
        ~HasNode(last.context, last.result.associations[j].target_id)

\* C29: grounding adds edges and no nodes.  The returned subgraph has the
\* nodes and the centre of the input and every edge of the input; it has
\* one more edge for each pair of an abstract rule (a source tag and a
\* target tag) and a node bearing the source tag, from that node to
\* <node_id>_<target_tag> with the rule's logic kind and weight, under an
\* id of its own; and when no node has the id such an edge leads to,
\* run_inference returns the same map on the returned subgraph as on the
\* input.
C29_GroundingAddsEdgesOnly ==
    Grounded =>
        /\ last.result.nodes = last.context.nodes
        /\ last.result.center_node_id = last.context.center_node_id
        /\ \A i \in DOMAIN last.context.associations :
               last.result.associations[i] = last.context.associations[i]
        /\ Cardinality(NewEdges) = Cardinality(GroundingPairs)
        /\ \A p \in GroundingPairs :
               \E j \in NewEdges :
                   EdgeOfPair(last.result.associations[j], p)
        /\ \A j \in NewEdges :
               /\ \E p \in GroundingPairs :
                      EdgeOfPair(last.result.associations[j], p)
               /\ \A i \in DOMAIN last.result.associations :
                      i # j => last.result.associations[i].id
                                   # last.result.associations[j].id
        /\ NoDerivedNode =>
               \A evidence \in {<<>>, IdA :> 1000, IdB :> 0} :
                   run_inference(last.result, evidence, {}).result
                       = run_inference(last.context, evidence, {}).result

\* rules have been grounded at two nodes or more of a subgraph none of
\* whose nodes has a derived id, and inference moves a node of it
C29_Witness ==
    /\ Grounded
    /\ Cardinality(NewEdges) >= 2
    /\ NoDerivedNode
    /\ \E n \in DOMAIN last.context.nodes :
           run_inference(last.result, <<>>, {})
                   .result[last.context.nodes[n].id]
               # last.context.nodes[n].prior

\* rules have been grounded in a subgraph with a node of a derived id, and
\* inference on the returned subgraph differs from inference on the input
DerivedNodeMatters ==
    /\ Grounded
    /\ ~NoDerivedNode
    /\ run_inference(last.result, <<>>, {}).result
           # run_inference(last.context, <<>>, {}).result

-----------------------------------------------------------------------------
(* C30: solve_context calls in progress together *)

\* the subgraph that storage returned to coroutine t, as a context
OwnContext(t) ==
    LET hood == calls[CHOOSE i \in CallsOf(t, "get_neighborhood") : TRUE]
                    .returned
    IN  extract_context(hood.nodes, hood.associations,
                        tasks[t].center_node_id)

\* the map run_inference yields on the subgraph coroutine t fetched, with
\* the evidence coroutine t was called with
OwnResults(t) == run_inference(OwnContext(t), tasks[t].evidence, {}).result

\* the value that the updates submit for node_id, as a set
Submitted(updates, node_id) ==
    {updates[u].truth_value :
        u \in {v \in DOMAIN updates : updates[v].id = node_id}}

\* C30: calls in progress together do not interfere.  Whatever the other
\* call has done in between, a call that has inferred holds the map that
\* run_inference yields on the subgraph its own get_neighborhood call
\* returned with its own evidence, the updates it submits carry that map,
\* and its bulk_update_nodes call writes them over what storage holds then.
C30_CallsDoNotInterfere ==
    /\ [](\A t \in Tasks :
            /\ Inferred(t) => tasks[t].results = OwnResults(t)
            /\ \A w \in CallsOf(t, "bulk_update_nodes") :
                   \A id \in FetchedIds(t) :
                       Submitted(calls[w].updates, id) = {OwnResults(t)[id]})
    /\ [][\A t \in Tasks :
            CallsOf(t, "bulk_update_nodes")' # CallsOf(t, "bulk_update_nodes")
                => /\ db' = bulk_update_nodes(db, tasks[t].updates)
                   /\ \A i \in DOMAIN db'.nodes :
                          db'.nodes[i].id \in FetchedIds(t) =>
                              db'.nodes[i].truth_value
                                  = OwnResults(t)[db'.nodes[i].id]]_vars

\* two calls with write_back have returned; the one that fetched first
\* wrote last, over a value of a node that the other had written after that
\* fetch, and storage holds the value of the call that wrote last
C30_Witness ==
    \E t, o \in Tasks :
        /\ Solved(t) /\ Solved(o)
        /\ \E g \in CallsOf(t, "get_neighborhood"),
              h \in CallsOf(o, "get_neighborhood"),
              v \in CallsOf(o, "bulk_update_nodes"),
              w \in CallsOf(t, "bulk_update_nodes") :
               /\ g < h /\ h < v /\ v < w
               /\ \E i \in DOMAIN db.nodes :
                      /\ db.nodes[i].id \in FetchedIds(t) \cap FetchedIds(o)
                      /\ tasks[t].results[db.nodes[i].id]
                             # tasks[o].results[db.nodes[i].id]
                      /\ db.nodes[i].truth_value
                             = tasks[t].results[db.nodes[i].id]

=============================================================================
